---- MODULE Spec2Model ----
(***************************************************************************)
(* Model of the sht terminal grid editor (newsch/sht).                     *)
(*                                                                         *)
(* Part 1: Grid and ChangeTracker (src/src/grid.rs) as driven by the       *)
(* controller (src/src/program.rs): every mutation of the grid returns a   *)
(* Change which is tracked, and Undo / Redo replay the Changes.            *)
(***************************************************************************)
EXTENDS Integers, Sequences, FiniteSets, TLC

(* ---------------------------------------------------------------- bounds *)
\* Largest number of rows / columns the grid is grown to by insertions.
MaxRows == 2
MaxCols == 2
\* Largest number of Changes held by the undo stack.
MaxHistory == 2

(* ---------------------------------------------------------------- inputs *)
\* Texts typed into a cell (String::new() of the Clear action, and one text).
EditTexts == {"", "z"}

\* The contents handed to insert_row / insert_col: a vector of n texts.
Contents(n) == [i \in 1..n |-> IF i % 2 = 1 THEN "a" ELSE "b"]

\* The records a csv file may hold (the reader is not flexible: every record
\* of one file has the same number of fields).
CsvFiles ==
    { << >>,
      << <<"p", "q">> >>,
      << <<"p">>, <<"r">> >>,
      << <<"p", "q">>, <<"r", "s">> >> }

(* ------------------------------------------------------- sequence helpers *)
\* Vec::insert(index, element), index counted from 0.
VecInsert(s, index, e) ==
    SubSeq(s, 1, index) \o <<e>> \o SubSeq(s, index + 1, Len(s))

\* Vec::remove(index), index counted from 0: the vector without the element.
VecRemove(s, index) ==
    SubSeq(s, 1, index) \o SubSeq(s, index + 2, Len(s))

\* contents.extend(iter::repeat(String::new()).take(n - contents.len()))
ExtendEmpty(contents, n) ==
    IF Len(contents) < n
    THEN contents \o [i \in 1..(n - Len(contents)) |-> ""]
    ELSE contents

Last(s) == s[Len(s)]
Front(s) == SubSeq(s, 1, Len(s) - 1)

(* ------------------------------------------------------------------ Grid *)
XY(x, y) == [x |-> x, y |-> y]

\* Grid::from_csv: the cells are the records, the width is that of record 0.
Grid_from_csv(records) ==
    [cells |-> records,
     size  |-> XY(IF Len(records) = 0 THEN 0 ELSE Len(records[1]), Len(records))]

\* Grid::is_in
Grid_is_in(g, pos) == pos.x < g.size.x /\ pos.y < g.size.y

\* Grid::get_mut: whether cells.get_mut(pos.y).and_then(|r| r.get_mut(pos.x))
\* is Some.
Grid_get_mut(g, pos) ==
    /\ pos.y < Len(g.cells)
    /\ pos.x < Len(g.cells[pos.y + 1])

\* The Change values (enum Change).
Replace(pos, old)   == [type |-> "Replace", pos |-> pos, old |-> old]
ReplaceGrid(old)    == [type |-> "ReplaceGrid", old |-> old]
DeleteCol(col, old) == [type |-> "DeleteCol", col |-> col, old |-> old]
InsertCol(col)      == [type |-> "InsertCol", col |-> col]
DeleteRow(row, old) == [type |-> "DeleteRow", row |-> row, old |-> old]
InsertRow(row)      == [type |-> "InsertRow", row |-> row]
NoChange            == [type |-> "NoChange"]

\* A grid operation either returns (the new grid and the Change) or panics.
Returns(g, change) == [grid |-> g, change |-> change, panic |-> FALSE]
Panics(g)          == [grid |-> g, change |-> NoChange, panic |-> TRUE]

\* Grid::replace recording the new grid in place of the old one.
Grid_replace_records_new(g, other) == Returns(other, ReplaceGrid(other))

\* Grid::replace
Grid_replace(g, other) == Returns(other, ReplaceGrid(g))

\* Grid::edit recording the new contents in place of the old ones.
Grid_edit_records_new(g, pos, contents) ==
    IF ~Grid_get_mut(g, pos)
    THEN Panics(g)
    ELSE Returns(
           [g EXCEPT !.cells[pos.y + 1][pos.x + 1] = contents],
           Replace(pos, contents))

\* Grid::edit
Grid_edit(g, pos, contents) ==
    IF ~Grid_get_mut(g, pos)
    THEN Panics(g)
    ELSE Returns(
           [g EXCEPT !.cells[pos.y + 1][pos.x + 1] = contents],
           Replace(pos, g.cells[pos.y + 1][pos.x + 1]))

\* Grid::insert_row without the extension of short contents.
Grid_insert_row_unpadded(g, row, contents) ==
    IF ~(row <= g.size.y) \/ ~(Len(contents) <= g.size.x) \/ row > Len(g.cells)
    THEN Panics(g)
    ELSE Returns(
           [cells |-> VecInsert(g.cells, row, contents),
            size  |-> XY(g.size.x, g.size.y + 1)],
           InsertRow(row))

\* Grid::insert_row
Grid_insert_row(g, row, contents) ==
    IF ~(row <= g.size.y) \/ ~(Len(contents) <= g.size.x) \/ row > Len(g.cells)
    THEN Panics(g)
    ELSE Returns(
           [cells |-> VecInsert(g.cells, row, ExtendEmpty(contents, g.size.x)),
            size  |-> XY(g.size.x, g.size.y + 1)],
           InsertRow(row))

\* Grid::delete_row recording the index only, as the insertions do.
Grid_delete_row_forgets(g, row) ==
    IF ~(row < g.size.y) \/ row >= Len(g.cells)
    THEN Panics(g)
    ELSE Returns(
           [cells |-> VecRemove(g.cells, row),
            size  |-> XY(g.size.x, g.size.y - 1)],
           DeleteRow(row, << >>))

\* Grid::delete_row
Grid_delete_row(g, row) ==
    IF ~(row < g.size.y) \/ row >= Len(g.cells)
    THEN Panics(g)
    ELSE Returns(
           [cells |-> VecRemove(g.cells, row),
            size  |-> XY(g.size.x, g.size.y - 1)],
           DeleteRow(row, g.cells[row + 1]))

\* Grid::insert_col without assert!(contents.len() <= self.size.y).
Grid_insert_col_unchecked(g, col, contents) ==
    LET ext == ExtendEmpty(contents, g.size.y)
        zipped == IF Len(g.cells) < Len(ext) THEN Len(g.cells) ELSE Len(ext)
    IN  IF \/ ~(col <= g.size.x)
           \/ \E r \in 1..zipped : col > Len(g.cells[r])
        THEN Panics(g)
        ELSE Returns(
               [cells |-> [r \in 1..Len(g.cells) |->
                             IF r <= zipped
                             THEN VecInsert(g.cells[r], col, ext[r])
                             ELSE g.cells[r]],
                size  |-> XY(g.size.x + 1, g.size.y)],
               InsertCol(col))

\* Grid::insert_col extending short contents at the front.
Grid_insert_col_pads_front(g, col, contents) ==
    LET ext == [i \in 1..(g.size.y - Len(contents)) |-> ""] \o contents
        zipped == IF Len(g.cells) < Len(ext) THEN Len(g.cells) ELSE Len(ext)
    IN  IF \/ ~(col <= g.size.x)
           \/ ~(Len(contents) <= g.size.y)
           \/ \E r \in 1..zipped : col > Len(g.cells[r])
        THEN Panics(g)
        ELSE Returns(
               [cells |-> [r \in 1..Len(g.cells) |->
                             IF r <= zipped
                             THEN VecInsert(g.cells[r], col, ext[r])
                             ELSE g.cells[r]],
                size  |-> XY(g.size.x + 1, g.size.y)],
               InsertCol(col))

\* Grid::insert_col: the rows are zipped with the extended contents.
Grid_insert_col(g, col, contents) ==
    LET ext == ExtendEmpty(contents, g.size.y)
        zipped == IF Len(g.cells) < Len(ext) THEN Len(g.cells) ELSE Len(ext)
    IN  IF \/ ~(col <= g.size.x)
           \/ ~(Len(contents) <= g.size.y)
           \/ \E r \in 1..zipped : col > Len(g.cells[r])
        THEN Panics(g)
        ELSE Returns(
               [cells |-> [r \in 1..Len(g.cells) |->
                             IF r <= zipped
                             THEN VecInsert(g.cells[r], col, ext[r])
                             ELSE g.cells[r]],
                size  |-> XY(g.size.x + 1, g.size.y)],
               InsertCol(col))

\* Grid::delete_col
Grid_delete_col(g, col) ==
    IF ~(col < g.size.x) \/ \E r \in 1..Len(g.cells) : col >= Len(g.cells[r])
    THEN Panics(g)
    ELSE Returns(
           [cells |-> [r \in 1..Len(g.cells) |-> VecRemove(g.cells[r], col)],
            size  |-> XY(g.size.x - 1, g.size.y)],
           DeleteCol(col, [r \in 1..Len(g.cells) |-> g.cells[r][col + 1]]))

\* Grid::undo undoing an inserted row by deleting a column.
Grid_undo_swapped(g, change) ==
    CASE change.type = "Replace"     -> Grid_edit(g, change.pos, change.old)
      [] change.type = "ReplaceGrid" -> Grid_replace(g, change.old)
      [] change.type = "DeleteCol"   -> Grid_insert_col(g, change.col, change.old)
      [] change.type = "InsertCol"   -> Grid_delete_col(g, change.col)
      [] change.type = "DeleteRow"   -> Grid_insert_row(g, change.row, change.old)
      [] change.type = "InsertRow"   -> Grid_delete_col(g, change.row)

\* Grid::undo
Grid_undo(g, change) ==
    CASE change.type = "Replace"     -> Grid_edit(g, change.pos, change.old)
      [] change.type = "ReplaceGrid" -> Grid_replace(g, change.old)
      [] change.type = "DeleteCol"   -> Grid_insert_col(g, change.col, change.old)
      [] change.type = "InsertCol"   -> Grid_delete_col(g, change.col)
      [] change.type = "DeleteRow"   -> Grid_insert_row(g, change.row, change.old)
      [] change.type = "InsertRow"   -> Grid_delete_row(g, change.row)

(* --------------------------------------------------------- ChangeTracker *)
\* ChangeTracker::default
ChangeTracker_default == [undos |-> << >>, redos |-> << >>]

\* ChangeTracker::push keeping the redos.
ChangeTracker_push_keeps_redos(t, change) ==
    [undos |-> Append(t.undos, change), redos |-> t.redos]

\* ChangeTracker::push
ChangeTracker_push(t, change) ==
    [undos |-> Append(t.undos, change), redos |-> << >>]

\* ChangeTracker::undo taking the oldest Change in place of the newest.
ChangeTracker_undo_oldest(t, g) ==
    IF t.undos = << >>
    THEN [tracker |-> t, grid |-> g, ret |-> "None", panic |-> FALSE]
    ELSE LET r == Grid_undo(g, Head(t.undos))
         IN  IF r.panic
             THEN [tracker |-> t, grid |-> g, ret |-> "panic", panic |-> TRUE]
             ELSE [tracker |-> [undos |-> Tail(t.undos),
                                redos |-> Append(t.redos, r.change)],
                   grid |-> r.grid, ret |-> "Some", panic |-> FALSE]

\* ChangeTracker::undo: the tracker, the grid and Some(()) / None.
ChangeTracker_undo(t, g) ==
    IF t.undos = << >>
    THEN [tracker |-> t, grid |-> g, ret |-> "None", panic |-> FALSE]
    ELSE LET r == Grid_undo(g, Last(t.undos))
         IN  IF r.panic
             THEN [tracker |-> t, grid |-> g, ret |-> "panic", panic |-> TRUE]
             ELSE [tracker |-> [undos |-> Front(t.undos),
                                redos |-> Append(t.redos, r.change)],
                   grid |-> r.grid, ret |-> "Some", panic |-> FALSE]

\* ChangeTracker::redo answering Some(()) when there is nothing to redo.
ChangeTracker_redo_always_some(t, g) ==
    IF t.redos = << >>
    THEN [tracker |-> t, grid |-> g, ret |-> "Some", panic |-> FALSE]
    ELSE LET r == Grid_undo(g, Last(t.redos))
         IN  IF r.panic
             THEN [tracker |-> t, grid |-> g, ret |-> "panic", panic |-> TRUE]
             ELSE [tracker |-> [undos |-> Append(t.undos, r.change),
                                redos |-> Front(t.redos)],
                   grid |-> r.grid, ret |-> "Some", panic |-> FALSE]

\* ChangeTracker::redo
ChangeTracker_redo(t, g) ==
    IF t.redos = << >>
    THEN [tracker |-> t, grid |-> g, ret |-> "None", panic |-> FALSE]
    ELSE LET r == Grid_undo(g, Last(t.redos))
         IN  IF r.panic
             THEN [tracker |-> t, grid |-> g, ret |-> "panic", panic |-> TRUE]
             ELSE [tracker |-> [undos |-> Append(t.undos, r.change),
                                redos |-> Front(t.redos)],
                   grid |-> r.grid, ret |-> "Some", panic |-> FALSE]

(* ---------------------------------------------------------------- Status *)
NoStatus == [type |-> "None", ok |-> TRUE]
Status(type, ok) == [type |-> type, ok |-> ok]

\* Status::is_err
Status_is_err(s) == s.type \in {"Read", "Write", "DumpState"} /\ ~s.ok

(***************************************************************************)
(* Part 2: key bindings.  Bindings<A> of src/src/bindings.rs is a tree: a  *)
(* map from Input to BindNode, where a BindNode is an Action leaf or a     *)
(* Chord owning a nested map.  Bindings<A> of src/src/input.rs is the flat *)
(* form: single keys, and two-key chords held in a vector per first key.   *)
(***************************************************************************)

(* ------------------------------------------------------- bounds, inputs *)
\* Longest key path handed to get, create_chord and insert_chorded.
MaxPathLen == 3
\* Largest number of successful binding calls of one construction.
MaxBindings == 2

\* Input values (keys) and the actions bound to them.
Keys == {"a", "b"}
Actions == {1, 2}
\* Chord names handed to create_chord.
ChordNames == {"Insert"}

\* The key paths of 1 to n Inputs, and those of lo to n Inputs.
KeyPaths(lo, n) == UNION {[1..len -> Keys] : len \in lo..n}

\* The key paths get is called with: the empty path included.
AllPaths == KeyPaths(0, MaxPathLen)

(* ---------------------------------------------------------- BindNode<A> *)
\* BindNode::Action(a)
ActionNode(a) == [type |-> "Action", action |-> a]
\* BindNode::Chord { name, bindings }
ChordNode(name, bindings) ==
    [type |-> "Chord", name |-> name, bindings |-> bindings]

\* Bindings::empty(): the map without entries.
Bindings_empty == << >>

\* HashMap::insert(k, node): the map with k bound to node.
MapPut(map, k, node) ==
    [x \in (DOMAIN map) \cup {k} |-> IF x = k THEN node ELSE map[x]]

\* Option<&BindNode<A>>
NotFound == [kind |-> "None"]
Found(node) == [kind |-> "Some", node |-> node]

(* -------------------------------------------------------- Bindings::get *)
\* The loop of get: node is the node reached, rest the inputs not consumed.
RECURSIVE Bindings_get_loop(_, _)
Bindings_get_loop(node, rest) ==
    IF rest = << >> THEN Found(node)
    ELSE IF node.type = "Action" THEN Found(node)
    ELSE IF Head(rest) \in DOMAIN node.bindings
         THEN Bindings_get_loop(node.bindings[Head(rest)], Tail(rest))
         ELSE NotFound

\* A walk down the tree with one of the decisions of get changed.
RECURSIVE WalkVariant(_, _, _)
WalkVariant(node, rest, variant) ==
    IF variant = "first_only" THEN Found(node)
    ELSE IF rest = << >>
    THEN IF variant = "leaf_only" /\ node.type = "Chord" THEN NotFound
         ELSE Found(node)
    ELSE IF node.type = "Action"
    THEN IF variant = "strict" THEN NotFound ELSE Found(node)
    ELSE IF Head(rest) \in DOMAIN node.bindings
    THEN WalkVariant(node.bindings[Head(rest)], Tail(rest), variant)
    ELSE IF variant = "deepest" THEN Found(node)
    ELSE IF variant = "index" THEN [kind |-> "panic"]
    ELSE NotFound

GetVariant(b, inputs, variant) ==
    IF inputs = << >> THEN NotFound
    ELSE IF Head(inputs) \notin DOMAIN b
    THEN IF variant = "index" THEN [kind |-> "panic"] ELSE NotFound
    ELSE WalkVariant(b[Head(inputs)], Tail(inputs), variant)

\* get answering with the node of the first key, whatever follows.
Bindings_get_first_only(b, inputs) == GetVariant(b, inputs, "first_only")
\* get answering None when the inputs end on a Chord.
Bindings_get_leaf_only(b, inputs) == GetVariant(b, inputs, "leaf_only")
\* get answering with the deepest Chord reached when a key is missing.
Bindings_get_deepest(b, inputs) == GetVariant(b, inputs, "deepest")
\* get answering None when inputs are left over at an Action.
Bindings_get_strict(b, inputs) == GetVariant(b, inputs, "strict")
\* get indexing the maps (map[k]) instead of map.get(k).
Bindings_get_index(b, inputs) == GetVariant(b, inputs, "index")

\* Bindings::get(inputs)
Bindings_get(b, inputs) ==
    IF inputs = << >> THEN NotFound
    ELSE IF Head(inputs) \notin DOMAIN b THEN NotFound
    ELSE Bindings_get_loop(b[Head(inputs)], Tail(inputs))

(* --------------------------------------------- construction of the tree *)
\* The outcome of a construction call: the tree it leaves, or a panic.
Built(b) == [bindings |-> b, panic |-> FALSE]
Conflict == [bindings |-> Bindings_empty, panic |-> TRUE]

\* insert binding the key again when it is already bound.
Bindings_insert_overwrites(b, k, v) == Built(MapPut(b, k, ActionNode(v)))

\* Bindings::insert(k, v)
Bindings_insert(b, k, v) ==
    IF k \in DOMAIN b THEN Conflict
    ELSE Built(MapPut(b, k, ActionNode(v)))

\* map.entry(k).or_insert(Chord { name, bindings: empty }): the node at k.
EntryOrInsertChord(map, k, name) ==
    IF k \in DOMAIN map THEN map[k] ELSE ChordNode(name, Bindings_empty)

\* create_chord putting a fresh Chord at every key of the path.
RECURSIVE Bindings_create_chord_fresh(_, _, _)
Bindings_create_chord_fresh(map, name, ks) ==
    IF ks = << >> THEN Conflict
    ELSE
    LET k == Head(ks)
        node == ChordNode(IF Tail(ks) = << >> THEN name ELSE "", Bindings_empty)
    IN  IF Tail(ks) = << >> THEN Built(MapPut(map, k, node))
        ELSE LET sub == Bindings_create_chord_fresh(node.bindings, name, Tail(ks))
             IN  Built(MapPut(map, k, [node EXCEPT !.bindings = sub.bindings]))

\* Bindings::create_chord(name, ks); the subtree it returns is the one at ks.
RECURSIVE Bindings_create_chord(_, _, _)
Bindings_create_chord(map, name, ks) ==
    IF ks = << >> THEN Conflict
    ELSE
    LET k == Head(ks)
        node == EntryOrInsertChord(map, k,
                                   IF Tail(ks) = << >> THEN name ELSE "")
    IN  IF node.type = "Action" THEN Conflict
        ELSE IF Tail(ks) = << >> THEN Built(MapPut(map, k, node))
        ELSE LET sub == Bindings_create_chord(node.bindings, name, Tail(ks))
             IN  IF sub.panic THEN Conflict
                 ELSE Built(MapPut(map, k,
                                   [node EXCEPT !.bindings = sub.bindings]))

\* insert_chorded binding the last key again when it is already bound.
RECURSIVE Bindings_insert_chorded_overwrites(_, _, _)
Bindings_insert_chorded_overwrites(map, ks, v) ==
    IF ks = << >> THEN Conflict
    ELSE
    LET k == Head(ks)
    IN  IF Tail(ks) = << >> THEN Built(MapPut(map, k, ActionNode(v)))
        ELSE LET node == EntryOrInsertChord(map, k, "")
             IN  IF node.type = "Action" THEN Conflict
                 ELSE LET sub == Bindings_insert_chorded_overwrites(
                                     node.bindings, Tail(ks), v)
                      IN  IF sub.panic THEN Conflict
                          ELSE Built(MapPut(map, k,
                                   [node EXCEPT !.bindings = sub.bindings]))

\* Bindings::insert_chorded(ks, v)
RECURSIVE Bindings_insert_chorded(_, _, _)
Bindings_insert_chorded(map, ks, v) ==
    IF ks = << >> THEN Conflict
    ELSE
    LET k == Head(ks)
    IN  IF Tail(ks) = << >>
        THEN IF k \in DOMAIN map THEN Conflict
             ELSE Built(MapPut(map, k, ActionNode(v)))
        ELSE LET node == EntryOrInsertChord(map, k, "")
             IN  IF node.type = "Action" THEN Conflict
                 ELSE LET sub == Bindings_insert_chorded(node.bindings,
                                                         Tail(ks), v)
                      IN  IF sub.panic THEN Conflict
                          ELSE Built(MapPut(map, k,
                                   [node EXCEPT !.bindings = sub.bindings]))

\* chord.insert(k, v) on the subtree create_chord returned, which is the one
\* at path in the tree.
RECURSIVE Chord_insert(_, _, _, _)
Chord_insert(map, path, k, v) ==
    IF path = << >> THEN Bindings_insert(map, k, v)
    ELSE LET node == map[Head(path)]
             sub == Chord_insert(node.bindings, Tail(path), k, v)
         IN  IF sub.panic THEN Conflict
             ELSE Built(MapPut(map, Head(path),
                               [node EXCEPT !.bindings = sub.bindings]))

(* ------------------------------------- the flat Bindings of input.rs *)
\* Bindings::empty(): no single binding, no chord.
Flat_empty == [singles |-> << >>, chords |-> << >>]

FlatBuilt(f) == [flat |-> f, panic |-> FALSE]
FlatConflict == [flat |-> Flat_empty, panic |-> TRUE]

\* The second keys bound in a chord: the keys of its vector of (key, action).
ChordKeys(chord) == {chord[i][1] : i \in DOMAIN chord}

\* Bindings::insert(k, v) of input.rs
Flat_insert(f, k, v) ==
    IF k \in DOMAIN f.singles THEN FlatConflict
    ELSE IF k \in DOMAIN f.chords THEN FlatConflict
    ELSE FlatBuilt([f EXCEPT !.singles = MapPut(f.singles, k, v)])

\* Bindings::insert_chorded(k1, k2, v) of input.rs
Flat_insert_chorded(f, k1, k2, v) ==
    IF k1 \in DOMAIN f.singles THEN FlatConflict
    ELSE LET chord == IF k1 \in DOMAIN f.chords THEN f.chords[k1] ELSE << >>
         IN  IF k2 \in ChordKeys(chord) THEN FlatConflict
             ELSE FlatBuilt([f EXCEPT !.chords =
                                 MapPut(f.chords, k1, Append(chord, <<k2, v>>))])

(* ------------------------------------------------------ Bindings::iter *)
\* InputBuffer::pop: the buffer without its last Input (Vec::pop).
InputBuffer_pop(buf) == IF buf = << >> THEN buf ELSE Front(buf)
\* InputBuffer::extend(input): the buffer with the Inputs appended.
InputBuffer_extend(buf, input) == buf \o input

\* A clear that leaves the buffer as it is.
InputBuffer_clear_keeps(buf) == buf

\* InputBuffer::clear
InputBuffer_clear(buf) == << >>

\* hash_map::Iter over a map: the entries not visited yet.  A HashMap yields
\* its entries in an arbitrary order: the next entry is any of those left.
\* `at` is history: the place in the tree of the map being walked.
MapIter(map, at) == [some |-> TRUE, map |-> map, left |-> DOMAIN map, at |-> at]
NoMapIter == [some |-> FALSE, map |-> << >>, left |-> {}, at |-> << >>]

\* Option<(InputBuffer, &A)>; `at` is history: the place of the leaf yielded.
ItemNone == [kind |-> "None"]
ItemSome(input, action, at) ==
    [kind |-> "Some", input |-> input, action |-> action, at |-> at]

\* Iter::new(bindings)
Iter_new(b) ==
    [current |-> MapIter(b, << >>), queue |-> << >>, buf |-> << >>]

\* next descending into a Chord as soon as it meets it.
RECURSIVE Iter_next_depth_first(_)
Iter_next_depth_first(it) ==
    IF ~it.current.some
    THEN IF it.queue = << >> THEN {[iter |-> it, item |-> ItemNone]}
         ELSE LET top == Last(it.queue)
              IN  Iter_next_depth_first(
                      [queue |-> Front(it.queue),
                       buf |-> top.input,
                       current |-> top.current])
    ELSE IF it.current.left = {}
    THEN Iter_next_depth_first([it EXCEPT !.current = NoMapIter])
    ELSE UNION {
           LET node == it.current.map[k]
               rest == [it.current EXCEPT !.left = @ \ {k}]
               input == Append(it.buf, k)
               at == Append(it.current.at, k)
           IN  IF node.type = "Action"
               THEN {[iter |-> [it EXCEPT !.current = rest],
                      item |-> ItemSome(input, node.action, at)]}
               ELSE Iter_next_depth_first(
                        [queue |-> Append(it.queue,
                                          [input |-> it.buf, current |-> rest]),
                         buf |-> input,
                         current |-> MapIter(node.bindings, at)])
           : k \in it.current.left }

\* Iter::next: the outcomes of one call, one per order the maps may yield
\* their entries in.  An outcome is the iterator left and the item returned.
RECURSIVE Iter_next(_)
Iter_next(it) ==
    IF ~it.current.some
    THEN IF it.queue = << >> THEN {[iter |-> it, item |-> ItemNone]}
         ELSE LET top == Last(it.queue)
              IN  Iter_next([queue |-> Front(it.queue),
                             buf |-> InputBuffer_extend(it.buf, top.input),
                             current |-> MapIter(top.bindings, top.at)])
    ELSE IF it.current.left = {}
    THEN Iter_next([it EXCEPT !.current = NoMapIter,
                              !.buf = InputBuffer_pop(it.buf)])
    ELSE UNION {
           LET node == it.current.map[k]
               rest == [it.current EXCEPT !.left = @ \ {k}]
               input == Append(it.buf, k)
               at == Append(it.current.at, k)
           IN  IF node.type = "Action"
               THEN {[iter |-> [it EXCEPT !.current = rest],
                      item |-> ItemSome(input, node.action, at)]}
               ELSE Iter_next([it EXCEPT
                        !.current = rest,
                        !.queue = Append(it.queue,
                                         [input |-> input,
                                          bindings |-> node.bindings,
                                          at |-> at])])
           : k \in it.current.left }

(* ------------------------------------------------------------------------ *)
(* views/table.rs: the rows a Table shows                                    *)
(* ------------------------------------------------------------------------ *)

(* ------------------------------------------------------- bounds, inputs *)
\* The longest row list of a Table.
MaxTableRows == 5
\* The tallest area a Table is rendered into.
MaxHeight == 4

\* u16::MAX
U16_MAX == 2 ^ 16 - 1
saturating_add(a, b) == IF a + b > U16_MAX THEN U16_MAX ELSE a + b
saturating_sub(a, b) == IF a < b THEN 0 ELSE a - b
Min(a, b) == IF a < b THEN a ELSE b

(* ------------------------------------------------------------------- Row *)
Row(height, bottom_margin) == [height |-> height, bottom_margin |-> bottom_margin]
\* Row::new(cells)
Row_new == Row(1, 0)
Row_total_height(row) == saturating_add(row.height, row.bottom_margin)

\* Table::new(grid.cells.iter().map(|row| Row::new(row.clone()))) for a grid
\* of n rows.
Rows(n) == [i \in 1..n |-> Row_new]

\* Option<Row> and Option<XY<usize>>
NoHeader == [some |-> FALSE, row |-> Row_new]
Header(row) == [some |-> TRUE, row |-> row]
NoSelection == [some |-> FALSE, x |-> 0, y |-> 0]
Selected(x, y) == [some |-> TRUE, x |-> x, y |-> y]
\* selected.unwrap_or_default()
unwrap_or_default(selected) ==
    IF selected.some THEN XY(selected.x, selected.y) ELSE XY(0, 0)

\* Table::new(rows), with or without .header(header)
Table(rows, header) == [rows |-> rows, header |-> header]
\* Rect: area.area() is width * height
Rect(width, height) == [width |-> width, height |-> height]
Rect_area(area) == area.width * area.height

(* -------------------------------------------------- Table::get_row_bounds *)
\* The window [start, end) and the summed total_height of its rows; panic
\* tells that an index left the row list or a usize fell below zero.
Window(start, end, height) ==
    [start |-> start, end |-> end, height |-> height, panic |-> FALSE]
WindowPanic == [start |-> 0, end |-> 0, height |-> 0, panic |-> TRUE]

\* for item in self.rows.iter().skip(offset) { .. }
RECURSIVE GrowEnd(_, _, _)
GrowEnd(rows, w, max_height) ==
    IF w.end >= Len(rows) THEN w
    ELSE LET item == rows[w.end + 1]
         IN  IF w.height + item.height > max_height THEN w
             ELSE GrowEnd(rows,
                          Window(w.start, w.end + 1,
                                 w.height + Row_total_height(item)),
                          max_height)

\* while height > max_height { height -= rows[start]; start += 1 }
RECURSIVE EvictStart(_, _, _)
EvictStart(rows, w, max_height) ==
    IF w.height <= max_height THEN w
    ELSE IF w.start >= Len(rows) THEN WindowPanic
    ELSE EvictStart(rows,
                    Window(w.start + 1, w.end,
                           saturating_sub(w.height,
                                          Row_total_height(rows[w.start + 1]))),
                    max_height)

\* while selected >= end { height += rows[end]; end += 1; evict from start }
RECURSIVE ScrollDown(_, _, _, _)
ScrollDown(rows, selected, w, max_height) ==
    IF w.panic \/ selected < w.end THEN w
    ELSE IF w.end >= Len(rows) THEN WindowPanic
    ELSE ScrollDown(rows, selected,
                    EvictStart(rows,
                               Window(w.start, w.end + 1,
                                      saturating_add(w.height,
                                          Row_total_height(rows[w.end + 1]))),
                               max_height),
                    max_height)

\* while height > max_height { end -= 1; height -= rows[end] }
RECURSIVE EvictEnd(_, _, _)
EvictEnd(rows, w, max_height) ==
    IF w.height <= max_height THEN w
    ELSE IF w.end = 0 \/ w.end - 1 >= Len(rows) THEN WindowPanic
    ELSE EvictEnd(rows,
                  Window(w.start, w.end - 1,
                         saturating_sub(w.height,
                                        Row_total_height(rows[w.end]))),
                  max_height)

\* while selected < start { start -= 1; height += rows[start]; evict from end }
RECURSIVE ScrollUp(_, _, _, _)
ScrollUp(rows, selected, w, max_height) ==
    IF w.panic \/ selected >= w.start THEN w
    ELSE IF w.start = 0 \/ w.start - 1 >= Len(rows) THEN WindowPanic
    ELSE ScrollUp(rows, selected,
                  EvictEnd(rows,
                           Window(w.start - 1, w.end,
                                  saturating_add(w.height,
                                      Row_total_height(rows[w.start]))),
                           max_height),
                  max_height)

\* let offset = offset.min(self.rows.len().saturating_sub(1));
ClampOffset(rows, offset) == Min(offset, saturating_sub(Len(rows), 1))

\* The window grown from the clamped offset by the first loop.
Greedy(rows, offset, max_height) ==
    LET o == ClampOffset(rows, offset)
    IN  GrowEnd(rows, Window(o, o, 0), max_height)

\* The variants of get_row_bounds that the checks of the claims compare the
\* function with: each leaves out or changes one step.
RowBoundsVariant(rows, selected, offset, max_height, variant) ==
    IF Len(rows) = 0 THEN WindowPanic
    ELSE IF variant = "unclamped" /\ offset >= Len(rows)
    THEN Window(offset, offset, 0)
    ELSE LET greedy == Greedy(rows, offset, max_height)
             y == Min(unwrap_or_default(selected).y, Len(rows) - 1)
             down == IF variant = "no_evict" /\ y >= greedy.end
                     THEN Window(greedy.start, y + 1, 0)
                     ELSE IF variant = "page_down" /\ y >= greedy.end
                     THEN GrowEnd(rows, Window(y, y, 0), max_height)
                     ELSE ScrollDown(rows, y, greedy, max_height)
         IN  IF down.panic THEN down
             ELSE IF variant = "page_up" /\ y < down.start
             THEN Window(y, y + 1, 1)
             ELSE IF variant = "drift" /\ selected.some
                     /\ y > down.start /\ down.end < Len(rows)
             THEN Window(down.start + 1, down.end + 1, down.height)
             ELSE IF variant = "keep_offset" /\ ~selected.some
             THEN down
             ELSE IF variant = "recenter" /\ selected.some /\ y > down.start
             THEN GrowEnd(rows, Window(y, y, 0), max_height)
             ELSE ScrollUp(rows, y, down, max_height)

Table_get_row_bounds_no_evict(rows, selected, offset, max_height) ==
    RowBoundsVariant(rows, selected, offset, max_height, "no_evict")
Table_get_row_bounds_page_down(rows, selected, offset, max_height) ==
    RowBoundsVariant(rows, selected, offset, max_height, "page_down")
Table_get_row_bounds_page_up(rows, selected, offset, max_height) ==
    RowBoundsVariant(rows, selected, offset, max_height, "page_up")
Table_get_row_bounds_unclamped(rows, selected, offset, max_height) ==
    RowBoundsVariant(rows, selected, offset, max_height, "unclamped")
Table_get_row_bounds_drift(rows, selected, offset, max_height) ==
    RowBoundsVariant(rows, selected, offset, max_height, "drift")
Table_get_row_bounds_keep_offset(rows, selected, offset, max_height) ==
    RowBoundsVariant(rows, selected, offset, max_height, "keep_offset")
Table_get_row_bounds_recenter(rows, selected, offset, max_height) ==
    RowBoundsVariant(rows, selected, offset, max_height, "recenter")

\* self.get_row_bounds(selected, offset, max_height)
\* self.rows.len() - 1 falls below zero when there are no rows: a panic in a
\* debug build, and in a release build usize::MAX, so that rows[end] leaves
\* the empty list.
Table_get_row_bounds(rows, selected, offset, max_height) ==
    IF Len(rows) = 0 THEN WindowPanic
    ELSE LET greedy == Greedy(rows, offset, max_height)
             y == Min(unwrap_or_default(selected).y, Len(rows) - 1)
             down == ScrollDown(rows, y, greedy, max_height)
         IN  ScrollUp(rows, y, down, max_height)

(* ------------------------------------------------------------ TableState *)
TableState(offset, selected) == [offset |-> offset, selected |-> selected]
TableState_default == TableState(0, NoSelection)

\* state.select(index)
TableState_select(state, index) ==
    TableState(IF index.some THEN state.offset ELSE 0, index)

(* ---------------------------------------------------------- Table::render *)
\* What a render did: it returned before computing a range ("none"), drew
\* the rows [start, end) ("rows"), or panicked ("panic").
Drawn(kind, start, end) == [kind |-> kind, start |-> start, end |-> end]

\* table_area.height, less the header's share (the Table has no block).
RowsHeight(table, area) ==
    IF table.header.some
    THEN saturating_sub(area.height,
                        Min(area.height, Row_total_height(table.header.row)))
    ELSE area.height

\* A render that goes on without rows.
Table_render_unchecked(table, area, state) ==
    IF Rect_area(area) = 0 THEN [state |-> state, drawn |-> Drawn("none", 0, 0)]
    ELSE LET w == Table_get_row_bounds(table.rows, state.selected,
                                       state.offset, RowsHeight(table, area))
         IN  IF w.panic
             THEN [state |-> state, drawn |-> Drawn("panic", 0, 0)]
             ELSE [state |-> TableState(w.start, state.selected),
                   drawn |-> Drawn("rows", w.start, w.end)]

\* StatefulWidget::render(table, area, buf, &mut state)
Table_render(table, area, state) ==
    IF Rect_area(area) = 0 THEN [state |-> state, drawn |-> Drawn("none", 0, 0)]
    ELSE IF Len(table.rows) = 0
    THEN [state |-> state, drawn |-> Drawn("none", 0, 0)]
    ELSE LET w == Table_get_row_bounds(table.rows, state.selected,
                                       state.offset, RowsHeight(table, area))
         IN  IF w.panic
             THEN [state |-> state, drawn |-> Drawn("panic", 0, 0)]
             ELSE [state |-> TableState(w.start, state.selected),
                   drawn |-> Drawn("rows", w.start, w.end)]

(* ---------------------------------------------- Table::get_columns_widths *)
\* The most columns of a Table, and the widest area and column.
MaxTableCols == 2
MaxWidth == 3

\* Table::new: column_spacing
column_spacing == 1

RECURSIVE SumWidths(_, _, _)
\* The summed width of the columns [start, end) of ws.
SumWidths(ws, start, end) ==
    IF start >= end THEN 0 ELSE ws[start + 1] + SumWidths(ws, start + 1, end)

\* Layout::split of a horizontal Layout over an area max_width wide, with
\* the column widths and the spacing between them as constraints: the
\* chunks lie side by side within the area. The layout is computed by the
\* tui crate; any widths of the column chunks that leave the chunks within
\* the area may come back.
Table_get_columns_widths(widths, max_width) ==
    {ws \in [1..Len(widths) -> 0..max_width] :
        SumWidths(ws, 0, Len(ws)) <= max_width}

\* for (col_t, (width, cell)) in
\*     columns_widths.iter().zip(table_row.cells.iter()).enumerate()
\* The columns drawn for a row of the given number of cells: [start, end).
DrawnColumns(columns_widths, cells) ==
    [start |-> 0, end |-> Min(Len(columns_widths), cells)]

\* The columns of a frame: the widths and the area given, the selection, and
\* once they are laid out the widths computed and the columns drawn.
Columns(widths, max_width, selected) ==
    [widths |-> widths, max_width |-> max_width, selected |-> selected,
     laid |-> FALSE, columns_widths |-> << >>,
     drawn |-> [start |-> 0, end |-> 0]]
NoColumns == Columns(<< >>, 0, NoSelection)

\* The render that left the TableState as it is: the table and the area it
\* was given, the state it started from, and what it drew.
Frame(table, area, before, drawn) ==
    [rendered |-> TRUE, table |-> table, area |-> area, before |-> before,
     drawn |-> drawn]
NoFrame ==
    [rendered |-> FALSE, table |-> Table(<< >>, NoHeader), area |-> Rect(0, 0),
     before |-> TableState_default, drawn |-> Drawn("none", 0, 0)]

\* The Actions of program/action.rs that the model follows.
Move(d) == [name |-> "Move", d |-> d]
Jump(d) == [name |-> "Jump", d |-> d]
Act(name) == [name |-> name, d |-> "-"]
NoAction == Act("-")

\* ViewState: Normal, or EditCell with its editor.
ViewStates == {"Normal", "EditCell"}

\* What the last handle_input did: the path it looked up and what the lookup
\* returned ("None", "Chord", "Action"; "-" outside the Normal view), the
\* Action it dispatched, the grid operation it called and whether the
\* operation's precondition held.
Handled(path, lookup, action, op, valid) ==
    [path |-> path, lookup |-> lookup, action |-> action, op |-> op,
     valid |-> valid]
NoHandled == Handled(<< >>, "-", NoAction, "-", TRUE)

(* ------------------------------------------------------------------------ *)
(* main.rs: the Program of the first binary                                  *)
(* ------------------------------------------------------------------------ *)

\* The largest width and height of a file that main.rs loads.
MaxMainSize == 3

\* Grid::from_csv of main.rs: the size is taken from the first record.
Main_Grid_from_csv(records) ==
    [cells |-> records,
     size |-> XY(IF Len(records) = 0 THEN 0 ELSE Len(records[1]),
                 Len(records))]

\* The Program of main.rs, and what its last handle_move did: the direction,
\* whether the assertion held at entry, and at exit ("held", "failed", or
\* "returned" when the move returned before it).
MainProgram(g, selection, moved, entry, exit) ==
    [grid |-> g, selection |-> selection, moved |-> moved,
     entry |-> entry, exit |-> exit]
NoMain == MainProgram(Main_Grid_from_csv(<< >>), XY(0, 0), "-", TRUE, "-")

\* Program::from_path of main.rs
Main_from_path(records) ==
    MainProgram(Main_Grid_from_csv(records), XY(0, 0), "-", TRUE, "-")

\* the condition of the assert! of Program::assert_selection_valid
Main_assert_selection_valid(g, sel) == sel.x < g.size.x /\ sel.y < g.size.y

\* Program::handle_move of main.rs. size.y - 1 and size.x - 1 are reached
\* only after the assertion at entry, with size.x and size.y above zero.
Main_handle_move(p, m) ==
    IF ~Main_assert_selection_valid(p.grid, p.selection)
    THEN MainProgram(p.grid, p.selection, m, FALSE, "-")
    ELSE LET x == p.selection.x
             y == p.selection.y
             size == p.grid.size
             moves == /\ m = "Up" => y > 0
                      /\ m = "Down" => y < size.y - 1
                      /\ m = "Left" => x > 0
                      /\ m = "Right" => x < size.x - 1
             s == CASE m = "Up" -> XY(x, y - 1)
                    [] m = "Down" -> XY(x, y + 1)
                    [] m = "Left" -> XY(x - 1, y)
                    [] m = "Right" -> XY(x + 1, y)
         IN  IF ~moves THEN MainProgram(p.grid, p.selection, m, TRUE, "returned")
             ELSE MainProgram(p.grid, s, m, TRUE,
                              IF Main_assert_selection_valid(p.grid, s)
                              THEN "held" ELSE "failed")



(* ------------------------------------------------------------------------ *)
(* views/edit.rs: the cell-edit dialog                                       *)
(* ------------------------------------------------------------------------ *)

\* The longest text, in bytes, that the editor is followed on.
MaxText == 2

\* A String is the sequence of its bytes in UTF-8. The chars the model types
\* and loads: "a" (one byte, 61) and e-acute (two bytes, C3 A9).
Char_a == <<"61">>
Char_e_acute == <<"C3", "A9">>
Chars == {Char_a, Char_e_acute}

\* str::is_char_boundary(idx): the start, the end, or a byte that is not a
\* continuation byte.
is_char_boundary(buffer, idx) ==
    \/ idx = 0
    \/ idx = Len(buffer)
    \/ idx < Len(buffer) /\ buffer[idx + 1] # "A9"

\* The outcome of a String operation: the String, or a panic.
Text(buffer) == [buffer |-> buffer, panic |-> FALSE]
TextPanic == [buffer |-> << >>, panic |-> TRUE]

\* String::remove(idx): removes the char that starts at byte idx; panics
\* when idx is not below the length or not on a char boundary.
String_remove(buffer, idx) ==
    IF idx >= Len(buffer) \/ ~is_char_boundary(buffer, idx) THEN TextPanic
    ELSE LET width == IF buffer[idx + 1] = "C3" THEN 2 ELSE 1
         IN  Text(SubSeq(buffer, 1, idx)
                    \o SubSeq(buffer, idx + width + 1, Len(buffer)))

\* String::insert(idx, c): panics when idx is beyond the length or not on a
\* char boundary.
String_insert(buffer, idx, c) ==
    IF idx > Len(buffer) \/ ~is_char_boundary(buffer, idx) THEN TextPanic
    ELSE Text(SubSeq(buffer, 1, idx) \o c
                \o SubSeq(buffer, idx + 1, Len(buffer)))

\* EditState, and the outcome of one of its methods.
EditState(buffer, cursor) == [buffer |-> buffer, cursor |-> cursor]
Edited(state) == [state |-> state, panic |-> FALSE]
EditPanic(state) == [state |-> state, panic |-> TRUE]

\* EditState::from_str
EditState_from_str(s) == EditState(s, Len(s))

\* EditState::pop_char_right
EditState_pop_char_right(state) ==
    IF state.cursor >= Len(state.buffer) THEN Edited(state)
    ELSE LET r == String_remove(state.buffer, state.cursor)
         IN  IF r.panic THEN EditPanic(state)
             ELSE Edited(EditState(r.buffer, state.cursor))

\* EditState::pop_char_left
EditState_pop_char_left(state) ==
    IF state.cursor <= 0 THEN Edited(state)
    ELSE LET r == String_remove(state.buffer, state.cursor - 1)
         IN  IF r.panic THEN EditPanic(state)
             ELSE Edited(EditState(r.buffer, state.cursor - 1))

\* EditState::insert_char
EditState_insert_char(state, c) ==
    LET r == String_insert(state.buffer, state.cursor, c)
    IN  IF r.panic THEN EditPanic(state)
        ELSE Edited(EditState(r.buffer, state.cursor + 1))

\* EditState::move_left, move_right, move_beginning, move_end
EditState_move_left(state) ==
    IF state.cursor <= 0 THEN Edited(state)
    ELSE Edited(EditState(state.buffer, state.cursor - 1))
EditState_move_right(state) ==
    IF state.cursor >= Len(state.buffer) THEN Edited(state)
    ELSE Edited(EditState(state.buffer, state.cursor + 1))
EditState_move_beginning(state) == Edited(EditState(state.buffer, 0))
EditState_move_end(state) ==
    Edited(EditState(state.buffer, Len(state.buffer)))

\* EditState::take: mem::take of the buffer; the cursor stays.
EditState_take(state) ==
    [state |-> EditState(<< >>, state.cursor), contents |-> state.buffer]

\* EditAction
EditChar(c) == [name |-> "Char", d |-> "-", c |-> c]
EditMove(d) == [name |-> "Move", d |-> d, c |-> << >>]
EditJump(d) == [name |-> "Jump", d |-> d, c |-> << >>]
EditAct(name) == [name |-> name, d |-> "-", c |-> << >>]

\* ControlFlow<Option<String>>, with the EditState the call left.
Continue(r) ==
    [flow |-> "Continue", state |-> r.state, contents |-> << >>,
     panic |-> r.panic]
BreakNone(state) ==
    [flow |-> "BreakNone", state |-> state, contents |-> << >>,
     panic |-> FALSE]
BreakSome(taken) ==
    [flow |-> "BreakSome", state |-> taken.state,
     contents |-> taken.contents, panic |-> FALSE]

\* Dialog<EditAction> for &mut EditState: handle_input(action)
EditState_handle_action(state, action) ==
    CASE action.name = "Cancel" -> BreakNone(state)
      [] action.name \in {"Submit", "Enter"} -> BreakSome(EditState_take(state))
      [] action.name = "Backspace" -> Continue(EditState_pop_char_left(state))
      [] action.name = "Delete" -> Continue(EditState_pop_char_right(state))
      [] action.name = "Move" /\ action.d = "Left" ->
           Continue(EditState_move_left(state))
      [] action.name = "Move" /\ action.d = "Right" ->
           Continue(EditState_move_right(state))
      [] \/ action.name = "Move" /\ action.d = "Up"
         \/ action.name = "Jump" /\ action.d \in {"Up", "Left"} ->
           Continue(EditState_move_beginning(state))
      [] \/ action.name = "Move" /\ action.d = "Down"
         \/ action.name = "Jump" /\ action.d \in {"Down", "Right"} ->
           Continue(EditState_move_end(state))
      [] action.name = "Char" ->
           Continue(EditState_insert_char(state, action.c))

\* EditAction::bindings()
EditAction_bindings ==
    [k \in {"Esc", "Enter", "Backspace", "Delete", "Left", "Right", "Up",
            "Down", "Home", "End"} |->
        CASE k = "Esc" -> EditAct("Cancel")
          [] k = "Enter" -> EditAct("Enter")
          [] k = "Backspace" -> EditAct("Backspace")
          [] k = "Delete" -> EditAct("Delete")
          [] k = "Left" -> EditMove("Left")
          [] k = "Right" -> EditMove("Right")
          [] k = "Up" -> EditMove("Up")
          [] k = "Down" -> EditMove("Down")
          [] k = "Home" -> EditJump("Left")
          [] k = "End" -> EditJump("Right")]

\* An Input: a key that carries a char (KeyCode::Char(c), whatever the
\* modifiers), or another key.
KeyChar(c) == [char |-> TRUE, c |-> c, key |-> "Char"]
Key(k) == [char |-> FALSE, c |-> << >>, key |-> k]

\* The action of an Input in the dialog; "Unhandled" for a key that is not
\* bound.
EditActionOf(input) ==
    IF input.char THEN EditChar(input.c)
    ELSE IF input.key \in DOMAIN EditAction_bindings
    THEN EditAction_bindings[input.key]
    ELSE EditAct("Unhandled")

\* Dialog for &mut EditState: handle_input(key)
EditState_handle_input(state, input) ==
    LET action == EditActionOf(input)
    IN  IF action.name = "Unhandled" THEN Continue(Edited(state))
        ELSE EditState_handle_action(state, action)

\* The dialog of the program: the EditState of ViewState::EditCell while the
\* view is EditCell, and the last Input the dialog handled with the action
\* it made of it and the EditState it started from.
Editor(state, input, action, before) ==
    [state |-> state, input |-> input, action |-> action, before |-> before]
NoEditor ==
    Editor(EditState(<< >>, 0), Key("-"), EditAct("-"), EditState(<< >>, 0))


(* ------------------------------------------------------------------------ *)
(* logger.rs: the BufferLogger                                               *)
(* ------------------------------------------------------------------------ *)

\* buf_size: the capacity both buffers are created with. It is 100 in
\* BufferLogger::new; the logger is followed with a small capacity.
buf_size == 2
\* The most records logged.
MaxLogged == 4

\* The threads that use the logger.
Threads == {"t1", "t2"}

\* A log that pushes without making room.
BufferLogger_log_unbounded(buffer, record) == Append(buffer, record)

\* BufferLogger::log, with the write buffer locked:
\* if buffer.len() == buffer.capacity() { buffer.pop_front(); }
\* buffer.push_back(record)
BufferLogger_log(buffer, record) ==
    Append(IF Len(buffer) = buf_size THEN Tail(buffer) ELSE buffer, record)

\* BufferLogger::swap, with both buffers locked. read.drain(..space_to_make)
\* panics when space_to_make is beyond the length of the read buffer.
BufferLogger_swap(write, read) ==
    LET num_read_free == buf_size - Len(read)
        num_write == Len(write)
        space_to_make == saturating_sub(num_write, num_read_free)
    IN  IF Len(read) > buf_size \/ space_to_make > Len(read)
        THEN [write |-> write, read |-> read, drained |-> space_to_make,
              panic |-> TRUE]
        ELSE [write |-> << >>,
              read |-> SubSeq(read, space_to_make + 1, Len(read)) \o write,
              drained |-> space_to_make, panic |-> FALSE]

\* The logger: its two buffers (records are numbered in the order in which
\* they are pushed), the owner of each Mutex ("-" when it is free), for each
\* thread the call it is in and whether it holds the guard of the read
\* buffer that buffer() gave it, the number of records logged, and what the
\* last call that returned did.
NoCall == [op |-> "-", drained |-> 0, held |-> 0]
NoLogger ==
    [buffer |-> << >>, read_buffer |-> << >>,
     write_lock |-> "-", read_lock |-> "-",
     pc |-> [t \in Threads |-> "idle"],
     guard |-> [t \in Threads |-> FALSE],
     logged |-> 0,
     last |-> NoCall]


(* ------------------------------------------------------------------------ *)
(* program.rs: moving and jumping the selection                              *)
(* ------------------------------------------------------------------------ *)

\* self.grid_state.visible_cells(): the columns and rows that a page holds.
\* A page of nothing, of one cell, and of one column of MaxHeight rows.
VisibleCells == {XY(0, 0), XY(1, 1), XY(1, MaxHeight)}

\* What handle_jump leaves: self.selection and self.grid_state.scroll().
Jumped(s, scroll) == [selection |-> s, scroll |-> scroll]

\* A handle_jump whose subtractions do not saturate.
Program_handle_jump_wrapping(s, scroll, cells, m) ==
    CASE m = "Up" ->
           Jumped(XY(s.x, s.y - cells.y), XY(scroll.x, scroll.y - cells.y))
      [] m = "Down" ->
           Jumped(XY(s.x, s.y + cells.y), XY(scroll.x, scroll.y + cells.y))
      [] m = "Left" ->
           Jumped(XY(s.x - cells.x, s.y), XY(scroll.x - cells.x, scroll.y))
      [] m = "Right" ->
           Jumped(XY(s.x + cells.x, s.y), XY(scroll.x + cells.x, scroll.y))

\* Program::handle_jump
Program_handle_jump(s, scroll, cells, m) ==
    CASE m = "Up" ->
           Jumped(XY(s.x, saturating_sub(s.y, cells.y)),
                  XY(scroll.x, saturating_sub(scroll.y, cells.y)))
      [] m = "Down" ->
           Jumped(XY(s.x, s.y + cells.y), XY(scroll.x, scroll.y + cells.y))
      [] m = "Left" ->
           Jumped(XY(saturating_sub(s.x, cells.x), s.y),
                  XY(saturating_sub(scroll.x, cells.x), scroll.y))
      [] m = "Right" ->
           Jumped(XY(s.x + cells.x, s.y), XY(scroll.x + cells.x, scroll.y))

\* The column scroll of Program.grid_state, and what the last move or jump
\* was given: the action, the page, the selection and the scroll.
GridState(scroll_x, action, cells, s, scroll) ==
    [scroll_x |-> scroll_x, action |-> action, cells |-> cells,
     selection |-> s, scroll |-> scroll]
NoGridState == GridState(0, NoAction, XY(0, 0), XY(0, 0), XY(0, 0))


(* ----------------------------------------------------------------- state *)
VARIABLES
    grid,            \* Program.grid: [cells, size]
    change_tracker,  \* Program.change_tracker: [undos, redos]
    status_msg,      \* Program.status_msg
    panicked,        \* the process was aborted by a panic
    last,            \* history: the last operation, its arguments, its result
                     \* and the state it started from
    scenario,        \* history: the run of edits, undos and redos in progress
    bindings,        \* the Bindings of bindings.rs under construction and in use
    flat,            \* the Bindings of input.rs under construction
    bound,           \* history: what the successful construction calls bound
    call,            \* history: the last call on the bindings and its result
    iter,            \* the iterator of bindings.iter(), while one is alive
    yielded,         \* history: the items the iterator has yielded, in order
    table_state,     \* the TableState the grid is rendered with
    frame,           \* history: the render that left table_state as it is
    columns,         \* the columns of a Table, before and after they are laid out
    selection,       \* Program.selection
    input_buf,       \* Program.input_buf: the pending path
    view,            \* Program.view
    handled,         \* history: what the last handle_input did
    main,            \* the Program of main.rs: grid, selection, last move
    editor,          \* the cell-edit dialog: its EditState and its host program
    logger,          \* the BufferLogger, its locks, and the threads using it
    grid_state       \* Program.grid_state: column scroll, and the last move or jump

gridvars == <<grid, change_tracker, status_msg, last, scenario>>
bindvars == <<bindings, flat, bound, call, iter, yielded>>
viewvars == <<table_state, frame, columns>>
progvars == <<selection, input_buf, view, handled>>
sidevars == <<main, editor, logger, grid_state>>
vars == <<grid, change_tracker, status_msg, panicked, last, scenario,
          bindings, flat, bound, call, iter, yielded, table_state, frame, columns,
          selection, input_buf, view, handled, main, editor, logger,
          grid_state>>

\* No iterator is alive.
NoIter == [live |-> FALSE, state |-> Iter_new(Bindings_empty)]

Mutations ==
    {"edit", "replace", "insert_row", "delete_row", "insert_col", "delete_col"}

\* The state an undo or a redo started from.
Pre == [grid |-> grid, change_tracker |-> change_tracker]

\* The state a tracked mutation started from; of the redo entries it dropped,
\* last.branch records only whether there were any.
PreTrack ==
    [grid |-> grid,
     change_tracker |-> [undos |-> change_tracker.undos, redos |-> << >>]]

Op(op, pos, index, contents, result, branch, pre) ==
    [op |-> op, pos |-> pos, index |-> index, contents |-> contents,
     result |-> result, branch |-> branch, pre |-> pre]

\* No run in progress: n edits, then k undos, then j redos, with n = k = j = 0.
Idle(g) ==
    [phase |-> "edits", n |-> 0, k |-> 0, j |-> 0, ok |-> TRUE, ins |-> FALSE,
     start |-> g, after |-> g]

\* A mutation extends a run of edits, or starts a new run.
AfterEdit(g, ins) ==
    IF scenario.phase = "edits"
    THEN [scenario EXCEPT !.n = @ + 1, !.after = g, !.ins = @ \/ ins]
    ELSE [Idle(grid) EXCEPT !.n = 1, !.after = g, !.ins = ins]

\* An undo extends a run of n edits and k < n undos.
AfterUndo(g, ret) ==
    IF scenario.phase \in {"edits", "undos"} /\ scenario.k < scenario.n
    THEN [scenario EXCEPT !.phase = "undos", !.k = @ + 1,
                          !.ok = @ /\ ret = "Some"]
    ELSE Idle(g)

\* A redo extends a run of n edits, k undos and j < k redos.
AfterRedo(g, ret) ==
    IF scenario.phase \in {"undos", "redos"} /\ scenario.j < scenario.k
    THEN [scenario EXCEPT !.phase = "redos", !.j = @ + 1,
                          !.ok = @ /\ ret = "Some"]
    ELSE Idle(g)

Init ==
    /\ \E records \in CsvFiles : grid = Grid_from_csv(records)
    /\ change_tracker = ChangeTracker_default
    /\ status_msg = NoStatus
    /\ panicked = FALSE
    /\ last = [op |-> "init", pos |-> XY(0, 0), index |-> 0, contents |-> << >>,
               result |-> "-", branch |-> FALSE,
               pre |-> [grid |-> grid, change_tracker |-> ChangeTracker_default]]
    /\ scenario = Idle(grid)
    /\ bindings = Bindings_empty
    /\ flat = Flat_empty
    /\ bound = {}
    /\ call = [op |-> "empty", result |-> "ok", action |-> 0, ref |-> << >>]
    /\ iter = NoIter
    /\ yielded = << >>
    /\ table_state = TableState_default
    /\ frame = NoFrame
    /\ columns = NoColumns
    /\ selection = XY(0, 0)
    /\ input_buf = << >>
    /\ view = "Normal"
    /\ handled = NoHandled
    /\ main = NoMain
    /\ editor = NoEditor
    /\ logger = NoLogger
    /\ grid_state = NoGridState

\* grid.<operation>(..).track(&mut change_tracker): r is the operation's outcome.
Track(op, pos, index, contents, r) ==
    IF r.panic
    THEN /\ panicked' = TRUE
         /\ last' = Op(op, XY(0, 0), 0, << >>, "panic", FALSE, PreTrack)
         /\ UNCHANGED <<grid, change_tracker, scenario>>
    ELSE /\ grid' = r.grid
         /\ change_tracker' = ChangeTracker_push(change_tracker, r.change)
         /\ last' = Op(op, pos, index, contents, "Change",
                       change_tracker.redos # << >>, PreTrack)
         /\ scenario' = AfterEdit(r.grid,
                                  op \in {"insert_row", "insert_col"}
                                  /\ contents # << >>)
         /\ UNCHANGED panicked

CanTrack == ~panicked /\ Len(change_tracker.undos) < MaxHistory

\* The first tracked operation of a session draws its arguments from the full
\* input sets, the later ones from one value each.
Fresh == change_tracker = ChangeTracker_default

Positions ==
    IF Fresh THEN {XY(x, y) : x \in 0..MaxCols, y \in 0..MaxRows}
    ELSE {XY(1, 0)}
RowIndexes == IF Fresh THEN 0..MaxRows ELSE {1}
ColIndexes == IF Fresh THEN 0..MaxCols ELSE {1}
RowLengths == IF Fresh THEN 0..(MaxCols + 1) ELSE {1}
ColLengths == IF Fresh THEN 0..(MaxRows + 1) ELSE {1}
Files == IF Fresh THEN CsvFiles ELSE {<< <<"p", "q">> >>}

\* grid.edit(pos, contents).track(..)
Edit ==
    /\ CanTrack
    /\ \E pos \in Positions, text \in EditTexts :
         Track("edit", pos, 0, <<text>>, Grid_edit(grid, pos, text))
    /\ UNCHANGED <<status_msg, bindvars, sidevars, viewvars, progvars>>

\* grid.insert_row(row, contents).track(..)
InsertRowOp ==
    /\ CanTrack
    /\ grid.size.y < MaxRows
    /\ \E row \in RowIndexes, n \in RowLengths :
         Track("insert_row", XY(0, 0), row, Contents(n),
               Grid_insert_row(grid, row, Contents(n)))
    /\ UNCHANGED <<status_msg, bindvars, sidevars, viewvars, progvars>>

\* grid.delete_row(row).track(..)
DeleteRowOp ==
    /\ CanTrack
    /\ \E row \in RowIndexes :
         Track("delete_row", XY(0, 0), row, << >>, Grid_delete_row(grid, row))
    /\ UNCHANGED <<status_msg, bindvars, sidevars, viewvars, progvars>>

\* grid.insert_col(col, contents).track(..)
InsertColOp ==
    /\ CanTrack
    /\ grid.size.x < MaxCols
    /\ \E col \in ColIndexes, n \in ColLengths :
         Track("insert_col", XY(0, 0), col, Contents(n),
               Grid_insert_col(grid, col, Contents(n)))
    /\ UNCHANGED <<status_msg, bindvars, sidevars, viewvars, progvars>>

\* grid.delete_col(col).track(..)
DeleteColOp ==
    /\ CanTrack
    /\ \E col \in ColIndexes :
         Track("delete_col", XY(0, 0), col, << >>, Grid_delete_col(grid, col))
    /\ UNCHANGED <<status_msg, bindvars, sidevars, viewvars, progvars>>

\* grid.replace(Grid::from_csv(rdr)).track(..)
ReplaceOp ==
    /\ CanTrack
    /\ \E records \in Files :
         Track("replace", XY(0, 0), 0, << >>,
               Grid_replace(grid, Grid_from_csv(records)))
    /\ UNCHANGED <<status_msg, bindvars, sidevars, viewvars, progvars>>

\* Action::Undo
Undo ==
    /\ ~panicked
    /\ LET r == ChangeTracker_undo(change_tracker, grid)
       IN  /\ grid' = r.grid
           /\ change_tracker' = r.tracker
           /\ panicked' = r.panic
           /\ status_msg' = IF r.ret = "None" THEN Status("UndoLimit", TRUE)
                            ELSE status_msg
           /\ last' = Op("undo", XY(0, 0), 0, << >>, r.ret, FALSE, Pre)
           /\ scenario' = AfterUndo(r.grid, r.ret)
    /\ UNCHANGED <<bindvars, sidevars, viewvars, progvars>>

\* Action::Redo
Redo ==
    /\ ~panicked
    /\ LET r == ChangeTracker_redo(change_tracker, grid)
       IN  /\ grid' = r.grid
           /\ change_tracker' = r.tracker
           /\ panicked' = r.panic
           /\ status_msg' = IF r.ret = "None" THEN Status("RedoLimit", TRUE)
                            ELSE status_msg
           /\ last' = Op("redo", XY(0, 0), 0, << >>, r.ret,
                         last.op \in Mutations /\ last.result = "Change"
                         /\ last.branch, Pre)
           /\ scenario' = AfterRedo(r.grid, r.ret)
    /\ UNCHANGED <<bindvars, sidevars, viewvars, progvars>>

Next ==
    \/ Edit
    \/ InsertRowOp
    \/ DeleteRowOp
    \/ InsertColOp
    \/ DeleteColOp
    \/ ReplaceOp
    \/ Undo
    \/ Redo

Spec == Init /\ [][Next]_vars

(* ------------------------------------------------------------------------ *)
(* Properties of the Grid and the ChangeTracker                             *)
(* ------------------------------------------------------------------------ *)
Tracked == last.op \in Mutations /\ last.result = "Change"
Undone  == last.op = "undo" /\ last.result = "Some"
Redone  == last.op = "redo" /\ last.result = "Some"

\* C1: after every single mutation (edit, replace, insert_row, delete_row,
\* insert_col, delete_col), Grid::undo applied to the Change the mutation
\* returned gives back the cells and the size the grid had before the mutation.
C1_MutationThenUndoRestores ==
    Tracked =>
        LET r == Grid_undo(grid, Last(change_tracker.undos))
        IN  /\ ~r.panic
            /\ r.grid.cells = last.pre.grid.cells
            /\ r.grid.size = last.pre.grid.size

\* A mutation of a grid with cells has changed the grid.
C1_Witness ==
    /\ Tracked
    /\ last.pre.grid.size.x > 0 /\ last.pre.grid.size.y > 0
    /\ grid # last.pre.grid

\* C2: after n tracked mutations followed by n undos, every one of the undos
\* returned Some(()) and the grid is the grid before the first mutation.
C2_EditsThenUndosRestore ==
    (scenario.phase = "undos" /\ scenario.k = scenario.n) =>
        /\ scenario.ok
        /\ grid = scenario.start

\* Two mutations that changed the grid, then two undos.
C2_Witness ==
    /\ scenario.phase = "undos"
    /\ scenario.n = 2 /\ scenario.k = 2
    /\ scenario.after # scenario.start

\* C3: after n tracked mutations, k <= n undos and k redos the grid is the grid
\* after the n mutations, also when one of the mutations inserted a row or a
\* column with contents.
C3_UndosThenRedosRestore ==
    (scenario.phase = "redos" /\ scenario.j = scenario.k) =>
        /\ scenario.ok
        /\ grid = scenario.after

\* Two mutations, one of them an insertion with contents, all undone and redone.
C3_Witness ==
    /\ scenario.phase = "redos"
    /\ scenario.n = 2 /\ scenario.k = 2 /\ scenario.j = 2
    /\ scenario.ins
    /\ scenario.after # scenario.start

\* C4: a tracked mutation leaves the redo stack empty, so that a redo right
\* after a mutation that followed undos returns None and leaves the grid as it
\* is; a successful redo removes one redo entry and keeps the others.
C4_PushClearsRedos ==
    /\ Tracked => change_tracker.redos = << >>
    /\ (last.op = "redo" /\ last.branch) =>
           /\ last.result = "None"
           /\ grid = last.pre.grid
    /\ Redone => change_tracker.redos = Front(last.pre.change_tracker.redos)

\* A redo right after a mutation that dropped redo entries.
C4_Witness == last.op = "redo" /\ last.branch

\* C5: an undo with an empty undo stack, and a redo with an empty redo stack,
\* returns None and changes neither the grid nor the stacks; the controller
\* sets the UndoLimit / RedoLimit status, which is no error.
C5_LimitIsNoError ==
    /\ (last.op = "undo" /\ last.pre.change_tracker.undos = << >>) =>
           /\ last.result = "None"
           /\ ~panicked
           /\ grid = last.pre.grid
           /\ change_tracker = last.pre.change_tracker
           /\ status_msg = Status("UndoLimit", TRUE)
           /\ ~Status_is_err(status_msg)
    /\ (last.op = "redo" /\ last.pre.change_tracker.redos = << >>) =>
           /\ last.result = "None"
           /\ ~panicked
           /\ grid = last.pre.grid
           /\ change_tracker = last.pre.change_tracker
           /\ status_msg = Status("RedoLimit", TRUE)
           /\ ~Status_is_err(status_msg)

\* A redo with nothing to redo, while there is something to undo.
C5_Witness ==
    /\ last.op = "redo" /\ last.result = "None"
    /\ change_tracker.undos # << >>

\* C6: Grid::undo applied to a Change c gives a Change c1, and Grid::undo
\* applied to c1 gives a Change equal to c.
C6_ChangeRoundTrip ==
    /\ Undone =>
           LET c  == Last(last.pre.change_tracker.undos)
               c1 == Last(change_tracker.redos)
               r  == Grid_undo(grid, c1)
           IN  ~r.panic /\ r.change = c
    /\ Redone =>
           LET c  == Last(last.pre.change_tracker.redos)
               c1 == Last(change_tracker.undos)
               r  == Grid_undo(grid, c1)
           IN  ~r.panic /\ r.change = c

\* The undo of a deleted column that held texts.
C6_Witness ==
    /\ Undone
    /\ Last(last.pre.change_tracker.undos).type = "DeleteCol"
    /\ Len(Last(last.pre.change_tracker.undos).old) = 2

\* C7: the grid has exactly size.y rows and every row has exactly size.x cells.
C7_GridIsRectangular ==
    /\ Len(grid.cells) = grid.size.y
    /\ \A r \in 1..Len(grid.cells) : Len(grid.cells[r]) = grid.size.x

\* An undo or a redo that changed the size of a grid with cells.
C7_Witness ==
    /\ Undone \/ Redone
    /\ grid.size # last.pre.grid.size
    /\ grid.size.x > 0 /\ grid.size.y > 0

\* The index preconditions of the operations, on the grid g.
Precondition(g, op, pos, index, contents) ==
    CASE op = "edit"       -> pos.x < g.size.x /\ pos.y < g.size.y
      [] op = "insert_row" -> index <= g.size.y /\ Len(contents) <= g.size.x
      [] op = "delete_row" -> index < g.size.y
      [] op = "insert_col" -> index <= g.size.x /\ Len(contents) <= g.size.y
      [] op = "delete_col" -> index < g.size.x
      [] OTHER             -> TRUE

\* C8: an operation whose index precondition is violated panics and returns
\* no Change: whenever an operation returned a Change its precondition held,
\* and every operation with a violated precondition panics on the grid.
C8_ViolatedPreconditionPanics ==
    /\ Tracked =>
           Precondition(last.pre.grid, last.op, last.pos, last.index, last.contents)
    /\ ~panicked =>
           /\ \A x \in 0..MaxCols, y \in 0..MaxRows :
                ~Precondition(grid, "edit", XY(x, y), 0, << >>) =>
                    LET r == Grid_edit(grid, XY(x, y), "z")
                    IN  r.panic /\ r.change = NoChange
           /\ \A row \in 0..MaxRows, n \in 0..(MaxCols + 1) :
                ~Precondition(grid, "insert_row", XY(0, 0), row, Contents(n)) =>
                    LET r == Grid_insert_row(grid, row, Contents(n))
                    IN  r.panic /\ r.change = NoChange
           /\ \A row \in 0..MaxRows :
                ~Precondition(grid, "delete_row", XY(0, 0), row, << >>) =>
                    LET r == Grid_delete_row(grid, row)
                    IN  r.panic /\ r.change = NoChange
           /\ \A col \in 0..MaxCols, n \in 0..(MaxRows + 1) :
                ~Precondition(grid, "insert_col", XY(0, 0), col, Contents(n)) =>
                    LET r == Grid_insert_col(grid, col, Contents(n))
                    IN  r.panic /\ r.change = NoChange
           /\ \A col \in 0..MaxCols :
                ~Precondition(grid, "delete_col", XY(0, 0), col, << >>) =>
                    LET r == Grid_delete_col(grid, col)
                    IN  r.panic /\ r.change = NoChange

\* An insert_col has panicked.
C8_Witness == panicked /\ last.op = "insert_col" /\ last.result = "panic"

\* The text at index i (from 0) of contents extended with empty texts.
Padded(contents, i) == IF i < Len(contents) THEN contents[i + 1] ELSE ""

\* C9: insert_row(i, contents) puts at row i the contents padded with empty
\* texts to size.x cells, moves the former rows i.. down by one, adds 1 to
\* size.y and returns a Change holding the index i only; insert_col does the
\* same with the columns, padding to size.y.
C9_InsertPadsAndShifts ==
    LET g0 == last.pre.grid
        i  == last.index
    IN  /\ (last.op = "insert_row" /\ last.result = "Change") =>
               /\ grid.size = XY(g0.size.x, g0.size.y + 1)
               /\ Len(grid.cells) = Len(g0.cells) + 1
               /\ Len(grid.cells[i + 1]) = g0.size.x
               /\ \A x \in 0..(g0.size.x - 1) :
                    grid.cells[i + 1][x + 1] = Padded(last.contents, x)
               /\ \A y \in 0..(g0.size.y - 1) :
                    grid.cells[(IF y < i THEN y ELSE y + 1) + 1] = g0.cells[y + 1]
               /\ Last(change_tracker.undos) = [type |-> "InsertRow", row |-> i]
        /\ (last.op = "insert_col" /\ last.result = "Change") =>
               /\ grid.size = XY(g0.size.x + 1, g0.size.y)
               /\ Len(grid.cells) = Len(g0.cells)
               /\ \A y \in 0..(g0.size.y - 1) :
                    /\ Len(grid.cells[y + 1]) = g0.size.x + 1
                    /\ grid.cells[y + 1][i + 1] = Padded(last.contents, y)
                    /\ \A x \in 0..(g0.size.x - 1) :
                         grid.cells[y + 1][(IF x < i THEN x ELSE x + 1) + 1]
                             = g0.cells[y + 1][x + 1]
               /\ Last(change_tracker.undos) = [type |-> "InsertCol", col |-> i]

\* A column with one text inserted before the only column of a grid of two rows.
C9_Witness ==
    /\ last.op = "insert_col" /\ last.result = "Change"
    /\ last.index < last.pre.grid.size.x
    /\ 0 < Len(last.contents)
    /\ Len(last.contents) < last.pre.grid.size.y

\* C10: edit(pos, text) returns the old text of the cell and changes that cell
\* only; delete_row(i) returns the cells of the removed row in column order
\* and delete_col(i) those of the removed column in row order, and the other
\* cells keep their contents and their order.
C10_MutationsRecordWhatTheyRemove ==
    LET g0 == last.pre.grid
        i  == last.index
    IN  /\ (last.op = "edit" /\ last.result = "Change") =>
               /\ grid.size = g0.size
               /\ Len(grid.cells) = Len(g0.cells)
               /\ \A y \in 0..(g0.size.y - 1) :
                    /\ Len(grid.cells[y + 1]) = g0.size.x
                    /\ \A x \in 0..(g0.size.x - 1) :
                         grid.cells[y + 1][x + 1] =
                             IF XY(x, y) = last.pos THEN last.contents[1]
                             ELSE g0.cells[y + 1][x + 1]
               /\ Last(change_tracker.undos) =
                      [type |-> "Replace", pos |-> last.pos,
                       old |-> g0.cells[last.pos.y + 1][last.pos.x + 1]]
        /\ (last.op = "delete_row" /\ last.result = "Change") =>
               /\ grid.size = XY(g0.size.x, g0.size.y - 1)
               /\ Len(grid.cells) = Len(g0.cells) - 1
               /\ \A y \in 0..(g0.size.y - 2) :
                    grid.cells[y + 1] = g0.cells[(IF y < i THEN y ELSE y + 1) + 1]
               /\ Last(change_tracker.undos) =
                      [type |-> "DeleteRow", row |-> i, old |-> g0.cells[i + 1]]
        /\ (last.op = "delete_col" /\ last.result = "Change") =>
               /\ grid.size = XY(g0.size.x - 1, g0.size.y)
               /\ Len(grid.cells) = Len(g0.cells)
               /\ \A y \in 0..(g0.size.y - 1) :
                    /\ Len(grid.cells[y + 1]) = g0.size.x - 1
                    /\ \A x \in 0..(g0.size.x - 2) :
                         grid.cells[y + 1][x + 1] =
                             g0.cells[y + 1][(IF x < i THEN x ELSE x + 1) + 1]
               /\ Last(change_tracker.undos) =
                      [type |-> "DeleteCol", col |-> i,
                       old |-> [y \in 1..g0.size.y |-> g0.cells[y][i + 1]]]

\* The first column of a grid of two rows and two columns has been deleted.
C10_Witness ==
    /\ last.op = "delete_col" /\ last.result = "Change"
    /\ last.index = 0
    /\ last.pre.grid.size = XY(2, 2)

(***************************************************************************)
(* Part 2: construction, lookup and iteration of the key bindings          *)
(***************************************************************************)

\* What a successful construction call bound: a path to an action, or a path
\* to a chord.
BoundAction(path, v) == [path |-> path, type |-> "Action", action |-> v]
BoundChord(path) == [path |-> path, type |-> "Chord", action |-> 0]

\* The last call: ref is the path of the subtree a create_chord returned,
\* while that reference is alive (<< >> when there is none).
\* For a get, result and action tell the node returned.
Call(op, result, action, ref) ==
    [op |-> op, result |-> result, action |-> action, ref |-> ref]

InitBindings ==
    /\ grid = Grid_from_csv(<< >>)
    /\ change_tracker = ChangeTracker_default
    /\ status_msg = NoStatus
    /\ panicked = FALSE
    /\ last = [op |-> "init", pos |-> XY(0, 0), index |-> 0, contents |-> << >>,
               result |-> "-", branch |-> FALSE,
               pre |-> [grid |-> grid, change_tracker |-> ChangeTracker_default]]
    /\ scenario = Idle(grid)
    /\ bindings = Bindings_empty
    /\ flat = Flat_empty
    /\ bound = {}
    /\ call = Call("empty", "ok", 0, << >>)
    /\ iter = NoIter
    /\ yielded = << >>
    /\ table_state = TableState_default
    /\ frame = NoFrame
    /\ columns = NoColumns
    /\ selection = XY(0, 0)
    /\ input_buf = << >>
    /\ view = "Normal"
    /\ handled = NoHandled
    /\ main = NoMain
    /\ editor = NoEditor
    /\ logger = NoLogger
    /\ grid_state = NoGridState

\* The bindings are constructed first (Default::default, the tests' example)
\* and then used: no construction call follows a get or an iter.
InUse == call.op \in {"get", "iter", "next"}

\* A construction call may be made.
CanBind == ~panicked /\ ~InUse /\ Cardinality(bound) < MaxBindings
\* A program holds the Bindings of bindings.rs or the Bindings of input.rs.
IsTree == flat = Flat_empty
IsFlat == bindings = Bindings_empty /\ \A e \in bound : e.type = "Flat"

\* The outcome r of the construction call op, which bound the entry e.
Bind(op, r, e, ref) ==
    IF r.panic
    THEN /\ panicked' = TRUE
         /\ call' = Call(op, "panic", 0, << >>)
         /\ UNCHANGED <<bindings, bound>>
    ELSE /\ bindings' = r.bindings
         /\ bound' = bound \cup {e}
         /\ call' = Call(op, "ok", 0, ref)
         /\ UNCHANGED panicked

\* s.insert(k, v)
InsertStep(k, v) ==
    /\ CanBind /\ IsTree
    /\ Bind("insert", Bindings_insert(bindings, k, v),
            BoundAction(<<k>>, v), << >>)
    /\ UNCHANGED <<sidevars, viewvars, progvars, gridvars, flat, iter, yielded>>

Insert == \E k \in Keys, v \in Actions : InsertStep(k, v)

\* let chord = s.create_chord(name, ks)
CreateChordStep(name, ks) ==
    /\ CanBind /\ IsTree
    /\ Bind("create_chord", Bindings_create_chord(bindings, name, ks),
            BoundChord(ks), ks)
    /\ UNCHANGED <<sidevars, viewvars, progvars, gridvars, flat, iter, yielded>>

CreateChord ==
    \E name \in ChordNames, ks \in KeyPaths(1, MaxPathLen - 1) :
        CreateChordStep(name, ks)

\* chord.insert(k, v), chord being the subtree the last create_chord returned
ChordInsertStep(k, v) ==
    /\ CanBind /\ IsTree
    /\ call.ref # << >>
    /\ Bind("chord_insert", Chord_insert(bindings, call.ref, k, v),
            BoundAction(Append(call.ref, k), v), call.ref)
    /\ UNCHANGED <<sidevars, viewvars, progvars, gridvars, flat, iter, yielded>>

ChordInsert == \E k \in Keys, v \in Actions : ChordInsertStep(k, v)

\* s.insert_chorded(ks, v)
InsertChordedStep(ks, v) ==
    /\ CanBind /\ IsTree
    /\ Bind("insert_chorded", Bindings_insert_chorded(bindings, ks, v),
            BoundAction(ks, v), << >>)
    /\ UNCHANGED <<sidevars, viewvars, progvars, gridvars, flat, iter, yielded>>

InsertChorded ==
    \E ks \in KeyPaths(1, MaxPathLen), v \in Actions : InsertChordedStep(ks, v)

\* The outcome r of a construction call on the Bindings of input.rs.
FlatBind(op, r, path, v) ==
    IF r.panic
    THEN /\ panicked' = TRUE
         /\ call' = Call(op, "panic", 0, << >>)
         /\ UNCHANGED <<flat, bound>>
    ELSE /\ flat' = r.flat
         /\ bound' = bound \cup {[path |-> path, type |-> "Flat", action |-> v]}
         /\ call' = Call(op, "ok", 0, << >>)
         /\ UNCHANGED panicked

\* s.insert(k, v) of input.rs
FlatInsertStep(k, v) ==
    /\ CanBind /\ IsFlat
    /\ FlatBind("flat_insert", Flat_insert(flat, k, v), <<k>>, v)
    /\ UNCHANGED <<sidevars, viewvars, progvars, gridvars, bindings, iter, yielded>>

FlatInsert == \E k \in Keys, v \in Actions : FlatInsertStep(k, v)

\* s.insert_chorded(k1, k2, v) of input.rs
FlatInsertChordedStep(k1, k2, v) ==
    /\ CanBind /\ IsFlat
    /\ FlatBind("flat_insert_chorded", Flat_insert_chorded(flat, k1, k2, v),
                <<k1, k2>>, v)
    /\ UNCHANGED <<sidevars, viewvars, progvars, gridvars, bindings, iter, yielded>>

FlatInsertChorded ==
    \E k1 \in Keys, k2 \in Keys, v \in Actions : FlatInsertChordedStep(k1, k2, v)

\* The call record of a get that returned r.
Returned(r) ==
    IF r.kind # "Some" THEN Call("get", r.kind, 0, << >>)
    ELSE IF r.node.type = "Action"
    THEN Call("get", "Action", r.node.action, << >>)
    ELSE Call("get", "Chord", 0, << >>)

\* bindings.get(inputs)
\* A get changes nothing but the record of the last call, so the gets that
\* follow a get reach no other states than that get: they are left out.
GetStep(inputs) ==
    /\ ~panicked /\ ~InUse /\ IsTree
    /\ call' = Returned(Bindings_get(bindings, inputs))
    /\ UNCHANGED <<sidevars, viewvars, progvars, gridvars, panicked, bindings, flat, bound, iter, yielded>>

Get == \E inputs \in AllPaths : GetStep(inputs)

\* let iter = bindings.iter()
IterNew ==
    /\ ~panicked /\ ~InUse /\ IsTree
    /\ iter' = [live |-> TRUE, state |-> Iter_new(bindings)]
    /\ yielded' = << >>
    /\ call' = Call("iter", "ok", 0, << >>)
    /\ UNCHANGED <<sidevars, viewvars, progvars, gridvars, panicked, bindings, flat, bound>>

\* iter.next()
IterNext ==
    /\ iter.live
    /\ \E r \in Iter_next(iter.state) :
         /\ iter' = [live |-> TRUE, state |-> r.iter]
         /\ yielded' = IF r.item.kind = "Some" THEN Append(yielded, r.item)
                       ELSE yielded
         /\ call' = Call("next", r.item.kind, 0, << >>)
    /\ UNCHANGED <<sidevars, viewvars, progvars, gridvars, panicked, bindings, flat, bound>>

\* Construction and lookup.
NextBindings ==
    \/ Insert
    \/ CreateChord
    \/ ChordInsert
    \/ InsertChorded
    \/ FlatInsert
    \/ FlatInsertChorded
    \/ Get

SpecBindings == InitBindings /\ [][NextBindings]_vars

\* Construction and iteration.
NextBindingsIter ==
    \/ Insert
    \/ CreateChord
    \/ ChordInsert
    \/ InsertChorded
    \/ FlatInsert
    \/ FlatInsertChorded
    \/ IterNew
    \/ IterNext

SpecBindingsIter == InitBindings /\ [][NextBindingsIter]_vars

(* ------------------------------------------------------------------------ *)
(* Properties of the key bindings                                           *)
(* ------------------------------------------------------------------------ *)

\* p is a prefix of q that is shorter than q.
IsProperPrefix(p, q) == Len(p) < Len(q) /\ SubSeq(q, 1, Len(p)) = p

\* What the successful construction calls bound on the tree.
BoundActions == {e \in bound : e.type = "Action"}
BoundChords == {e \in bound : e.type = "Chord"}
BoundOnTree == BoundActions \cup BoundChords

\* The last call was a get of inputs.
GotFor(inputs) ==
    call.op = "get" /\ call = Returned(Bindings_get(bindings, inputs))

\* C11: a key path bound by insert, by insert on the subtree create_chord
\* returned, or by insert_chorded resolves, as soon as the call has bound
\* it, to the Action node holding the action bound.
C11_BoundPathResolves ==
    [][\A e \in bound' \ bound :
          e.type = "Action"
          => Bindings_get(bindings', e.path) = Found(ActionNode(e.action))]_vars

\* A get of a bound path of the greatest length has returned its action.
C11_Witness ==
    \E e \in BoundActions :
        /\ Len(e.path) = MaxPathLen
        /\ GotFor(e.path)
        /\ call.result = "Action" /\ call.action = e.action

\* C12: get of a non-empty proper prefix of a bound chord path returns the
\* Chord node that owns the rest of the path: never an action, never None.
C12_PrefixIsPartialChord ==
    \A e \in BoundOnTree : \A n \in 1..Len(e.path) :
        (n < Len(e.path) \/ e.type = "Chord")
        => LET r == Bindings_get(bindings, SubSeq(e.path, 1, n))
           IN  /\ r.kind = "Some"
               /\ r.node.type = "Chord"
               /\ n < Len(e.path)
                  => Bindings_get(r.node.bindings,
                                  SubSeq(e.path, n + 1, Len(e.path)))
                     = Bindings_get(bindings, e.path)

\* A get of the two-key prefix of a bound three-key path has returned a Chord.
C12_Witness ==
    \E e \in BoundActions :
        /\ Len(e.path) >= 3
        /\ GotFor(SubSeq(e.path, 1, 2))
        /\ call.result = "Chord"

\* The path was bound by a construction call.
IsBound(p) == \E e \in BoundOnTree : e.path = p
\* The path is a proper prefix of a bound path.
IsBoundPrefix(p) == \E e \in BoundOnTree : IsProperPrefix(p, e.path)
\* The path runs on past a bound action.
IsPastAction(p) == \E e \in BoundActions : IsProperPrefix(e.path, p)

\* C13, as stated: get of a path that was not bound and is not a proper
\* prefix of a bound path returns None.
C13_UnboundIsNotFound ==
    \A p \in AllPaths :
        Bindings_get(bindings, p) = NotFound
        \/ ~(~IsBound(p) /\ ~IsBoundPrefix(p))

\* C13, amended: get of a path that was not bound, is not a proper prefix of
\* a bound path and does not run on past a bound action returns None.
C13_UnboundOffTreeIsNotFound ==
    \A p \in AllPaths :
        Bindings_get(bindings, p) = NotFound
        \/ ~(~IsBound(p) /\ ~IsBoundPrefix(p) /\ ~IsPastAction(p))

\* A get of an unbound path that leaves the tree below a chord has returned
\* None.
C13_Witness ==
    \E p \in AllPaths :
        /\ ~IsBound(p) /\ ~IsBoundPrefix(p) /\ ~IsPastAction(p)
        /\ Len(p) >= 2 /\ IsBoundPrefix(Front(p))
        /\ GotFor(p)
        /\ call.result = "None"

\* C14: when get reaches an Action with inputs left over, it returns that
\* action and ignores the inputs left.
C14_ActionEndsTheWalk ==
    \A e \in BoundActions : \A p \in AllPaths :
        IsProperPrefix(e.path, p)
        => Bindings_get(bindings, p) = Found(ActionNode(e.action))

\* A get of a path running on past a bound action has returned the action.
C14_Witness ==
    \E e \in BoundActions : \E p \in AllPaths :
        /\ IsProperPrefix(e.path, p)
        /\ GotFor(p)
        /\ call.result = "Action" /\ call.action = e.action

\* C15: get is total and reads only: for every tree and every path, the empty
\* path and the paths deeper than the tree included, it returns None, a Chord
\* or an Action, does not panic, and leaves the tree as it was.
C15_GetIsTotalAndReadOnly ==
    [][call'.op = "get"
       => /\ call'.result \in {"None", "Chord", "Action"}
          /\ bindings' = bindings
          /\ ~panicked']_vars

\* A get of a path that runs deeper than the tree, below a chord, has
\* returned None.
C15_Witness ==
    /\ \A e \in BoundOnTree : Len(e.path) < MaxPathLen
    /\ \E c \in BoundChords : \E p \in AllPaths :
          /\ Len(p) = MaxPathLen
          /\ IsProperPrefix(c.path, p)
          /\ GotFor(p)
          /\ call.result = "None"

\* The Action leaves of a tree, each with its key path from the root, and the
\* Chord nodes of a tree, each with its key path and its name.
RECURSIVE Leaves(_, _)
Leaves(map, at) ==
    UNION { IF map[k].type = "Action"
            THEN {[path |-> Append(at, k), action |-> map[k].action]}
            ELSE Leaves(map[k].bindings, Append(at, k))
            : k \in DOMAIN map }

RECURSIVE Chords(_, _)
Chords(map, at) ==
    UNION { IF map[k].type = "Action" THEN {}
            ELSE {[path |-> Append(at, k), name |-> map[k].name]}
                 \cup Chords(map[k].bindings, Append(at, k))
            : k \in DOMAIN map }

LeafPaths(b) == {l.path : l \in Leaves(b, << >>)}
ChordPaths(b) == {c.path : c \in Chords(b, << >>)}

\* The non-empty prefixes of a path that are shorter than len.
PrefixesBelow(ks, len) == {SubSeq(ks, 1, n) : n \in 1..(len - 1)}

\* The call panicked: the process is aborted.
Refused == panicked'

\* insert(k, v) on the map at the path `at` of the tree: it panics when k is
\* bound there, and otherwise adds the one leaf.
InsertContract(at, k, v) ==
    IF Append(at, k) \in LeafPaths(bindings) \cup ChordPaths(bindings)
    THEN Refused
    ELSE /\ ~panicked'
         /\ Leaves(bindings', << >>)
            = Leaves(bindings, << >>)
              \cup {[path |-> Append(at, k), action |-> v]}
         /\ Chords(bindings', << >>) = Chords(bindings, << >>)

FlatInsertContract(k, v) ==
    IF k \in DOMAIN flat.singles \/ k \in DOMAIN flat.chords
    THEN Refused
    ELSE /\ ~panicked'
         /\ DOMAIN flat'.singles = DOMAIN flat.singles \cup {k}
         /\ flat'.singles[k] = v
         /\ \A x \in DOMAIN flat.singles : flat'.singles[x] = flat.singles[x]
         /\ flat'.chords = flat.chords

\* C16: insert(key, action) panics whenever the key is already bound at that
\* level, to an action or to a chord; otherwise it adds exactly that one
\* binding and leaves every other binding as it was.
C16_InsertBindsOnceOrPanics ==
    [][/\ call'.op = "insert"
          => \A k \in Keys, v \in Actions :
                InsertStep(k, v) => InsertContract(<< >>, k, v)
       /\ call'.op = "chord_insert"
          => \A k \in Keys, v \in Actions :
                ChordInsertStep(k, v) => InsertContract(call.ref, k, v)
       /\ call'.op = "flat_insert"
          => \A k \in Keys, v \in Actions :
                FlatInsertStep(k, v) => FlatInsertContract(k, v)]_vars

\* An insert of a key bound to a chord has panicked.
C16_Witness ==
    /\ call.op = "insert" /\ call.result = "panic"
    /\ bindings # Bindings_empty
    /\ \A k \in DOMAIN bindings : bindings[k].type = "Chord"

\* A key along the path is bound to an action: a leaf lies on the path.
ActionOnPath(leaves, ks) ==
    \E p \in leaves : p = ks \/ IsProperPrefix(p, ks)

\* The Chord nodes of the tree are kept, and those missing along the first
\* len - 1 keys of the path are created.
ChordsAlong(ks, len) ==
    /\ Chords(bindings, << >>) \subseteq Chords(bindings', << >>)
    /\ ChordPaths(bindings') = ChordPaths(bindings) \cup PrefixesBelow(ks, len)

\* A successful create_chord(name, ks) keeps every leaf and every Chord node,
\* and the node at ks is a Chord, named name if the call created it.
CreateChordContract(name, ks) ==
    /\ ~ActionOnPath(LeafPaths(bindings), ks)
    /\ Leaves(bindings', << >>) = Leaves(bindings, << >>)
    /\ ChordsAlong(ks, Len(ks) + 1)
    /\ ks \notin ChordPaths(bindings)
       => [path |-> ks, name |-> name] \in Chords(bindings', << >>)

\* A successful insert_chorded(ks, v) adds the one leaf and keeps the others.
InsertChordedContract(ks, v) ==
    /\ ~ActionOnPath(LeafPaths(bindings), ks)
    /\ ks \notin ChordPaths(bindings)
    /\ Leaves(bindings', << >>)
       = Leaves(bindings, << >>) \cup {[path |-> ks, action |-> v]}
    /\ ChordsAlong(ks, Len(ks))

\* A successful insert_chorded(k1, k2, v) of input.rs appends to the chord of
\* k1 and keeps the rest.
FlatInsertChordedContract(k1, k2, v) ==
    LET chord == IF k1 \in DOMAIN flat.chords THEN flat.chords[k1] ELSE << >>
    IN  /\ k1 \notin DOMAIN flat.singles
        /\ k2 \notin ChordKeys(chord)
        /\ flat'.singles = flat.singles
        /\ DOMAIN flat'.chords = DOMAIN flat.chords \cup {k1}
        /\ flat'.chords[k1] = Append(chord, <<k2, v>>)
        /\ \A x \in DOMAIN flat.chords \ {k1} :
               flat'.chords[x] = flat.chords[x]

\* The chord calls that can be made on the tree panic when a key along the
\* path is bound to an action; insert_chorded binds its last key as insert
\* does, and so panics also when the whole path is bound to a chord.
ChordCallsRefuse ==
    (CanBind /\ IsTree) =>
    LET leaves == LeafPaths(bindings)
        chords == ChordPaths(bindings)
    IN  /\ \A name \in ChordNames, ks \in KeyPaths(1, MaxPathLen) :
              Bindings_create_chord(bindings, name, ks).panic
              <=> ActionOnPath(leaves, ks)
        /\ \A ks \in KeyPaths(1, MaxPathLen), v \in Actions :
              Bindings_insert_chorded(bindings, ks, v).panic
              <=> (ActionOnPath(leaves, ks) \/ ks \in chords)

FlatChordCallsRefuse ==
    (CanBind /\ IsFlat) =>
    \A k1 \in Keys, k2 \in Keys, v \in Actions :
        Flat_insert_chorded(flat, k1, k2, v).panic
        <=> \/ k1 \in DOMAIN flat.singles
            \/ k1 \in DOMAIN flat.chords /\ k2 \in ChordKeys(flat.chords[k1])

\* C17: create_chord and insert_chorded panic if a key along the chord path
\* is already bound to an action; otherwise they create the Chord nodes that
\* are missing and descend into those that exist, and what is bound under an
\* existing Chord node is kept.
C17_ChordPathKeepsWhatIsBound ==
    /\ [](ChordCallsRefuse /\ FlatChordCallsRefuse)
    /\ [][/\ (call'.op = "create_chord" /\ call'.result = "ok")
             => \A name \in ChordNames :
                   CreateChordStep(name, call'.ref)
                   => CreateChordContract(name, call'.ref)
          /\ (call'.op = "insert_chorded" /\ call'.result = "ok")
             => \A e \in bound' \ bound :
                   InsertChordedStep(e.path, e.action)
                   => InsertChordedContract(e.path, e.action)
          /\ (call'.op = "flat_insert_chorded" /\ call'.result = "ok")
             => \A e \in bound' \ bound :
                   FlatInsertChordedStep(e.path[1], e.path[2], e.action)
                   => FlatInsertChordedContract(e.path[1], e.path[2],
                                                e.action)]_vars

\* create_chord has descended into a Chord node that holds a binding.
C17_Witness ==
    /\ call.op = "create_chord" /\ call.result = "ok"
    /\ \E l \in Leaves(bindings, << >>) :
          /\ Len(l.path) >= 2
          /\ IsProperPrefix(Front(l.path), call.ref)

\* The bindings of the flat form a construction call bound are still there.
FlatHolds(e) ==
    IF Len(e.path) = 1
    THEN /\ e.path[1] \in DOMAIN flat.singles
         /\ flat.singles[e.path[1]] = e.action
    ELSE /\ e.path[1] \in DOMAIN flat.chords
         /\ \E i \in DOMAIN flat.chords[e.path[1]] :
               flat.chords[e.path[1]][i] = <<e.path[2], e.action>>

\* C18: no rebinding: after any run of successful insert, create_chord and
\* insert_chorded calls every key of every level maps to at most one node,
\* and every path bound earlier still resolves to the action first bound.
C18_NoRebinding ==
    /\ \A e \in BoundActions :
          Bindings_get(bindings, e.path) = Found(ActionNode(e.action))
    /\ \A e1 \in bound, e2 \in bound : e1.path = e2.path => e1 = e2
    /\ \A e \in bound \ BoundOnTree : FlatHolds(e)
    /\ DOMAIN flat.singles \cap DOMAIN flat.chords = {}
    /\ \A k \in DOMAIN flat.chords :
          \A i \in DOMAIN flat.chords[k], j \in DOMAIN flat.chords[k] :
              flat.chords[k][i][1] = flat.chords[k][j][1] => i = j

\* Two actions are bound under one chord, and a get of one of the two paths
\* has returned its own action.
C18_Witness ==
    \E e1 \in BoundActions, e2 \in BoundActions :
        /\ Len(e1.path) >= 2
        /\ Front(e1.path) = Front(e2.path)
        /\ e1.action # e2.action
        /\ GotFor(e1.path)
        /\ call.action = e1.action

\* The items yielded, as leaves: the place of each in the tree and its action.
YieldedLeaves ==
    {[path |-> yielded[i].at, action |-> yielded[i].action] : i \in DOMAIN yielded}

\* The iterator has returned None: the iteration is over.
IterDone == call.op = "next" /\ call.result = "None"

\* Every leaf is yielded, and none twice.
IterYieldsEveryLeafOnce ==
    /\ \A i \in DOMAIN yielded, j \in DOMAIN yielded :
          yielded[i].at = yielded[j].at => i = j
    /\ YieldedLeaves \subseteq Leaves(bindings, << >>)
    /\ IterDone => YieldedLeaves = Leaves(bindings, << >>)

\* The key path of every item yielded is the path from the root to its leaf.
IterYieldsThePathOfTheLeaf ==
    \A i \in DOMAIN yielded : yielded[i].input = yielded[i].at

\* get of the key path of every item yielded returns the action yielded.
IterYieldsWhatGetReturns ==
    \A i \in DOMAIN yielded :
        Bindings_get(bindings, yielded[i].input)
        = Found(ActionNode(yielded[i].action))

\* C19: for every binding tree, whatever its depth, the number of sibling
\* chords of a level and the order the maps iterate in, iter ends and yields
\* one pair per Action leaf; the key path of a pair is the keys from the root
\* to the leaf, so that get of the path yielded returns the action yielded.
C19_IterYieldsEveryLeafWithItsPath ==
    /\ IterYieldsEveryLeafOnce
    /\ IterYieldsThePathOfTheLeaf
    /\ IterYieldsWhatGetReturns

\* C20: iter is shallow before deep: at every level of the tree, the Action
\* children of the level are all yielded before any leaf that lies inside
\* one of the Chord children of the level.
C20_ShallowBeforeDeep ==
    \A i \in DOMAIN yielded, j \in DOMAIN yielded :
        i < j => ~IsProperPrefix(Front(yielded[j].at), Front(yielded[i].at))

\* An iteration is over that yielded an Action child of a level and then a
\* leaf inside a Chord child of that level.
C20_Witness ==
    /\ IterDone
    /\ \E i \in DOMAIN yielded, j \in DOMAIN yielded :
          /\ i < j
          /\ IsProperPrefix(Front(yielded[i].at), Front(yielded[j].at))

(* ------------------------------------------------------------------------ *)
(* The Table of views/table.rs and its TableState, frame after frame.        *)
(* ------------------------------------------------------------------------ *)

InitViewport ==
    /\ grid = Grid_from_csv(<< >>)
    /\ change_tracker = ChangeTracker_default
    /\ status_msg = NoStatus
    /\ panicked = FALSE
    /\ last = [op |-> "init", pos |-> XY(0, 0), index |-> 0, contents |-> << >>,
               result |-> "-", branch |-> FALSE,
               pre |-> [grid |-> grid, change_tracker |-> ChangeTracker_default]]
    /\ scenario = Idle(grid)
    /\ bindings = Bindings_empty
    /\ flat = Flat_empty
    /\ bound = {}
    /\ call = Call("empty", "ok", 0, << >>)
    /\ iter = NoIter
    /\ yielded = << >>
    /\ table_state = TableState_default
    /\ frame = NoFrame
    /\ columns = NoColumns
    /\ selection = XY(0, 0)
    /\ input_buf = << >>
    /\ view = "Normal"
    /\ handled = NoHandled
    /\ main = NoMain
    /\ editor = NoEditor
    /\ logger = NoLogger
    /\ grid_state = NoGridState

\* The selections a caller hands to select: none, or a cell of a row (the
\* controller does not keep its selection within the grid).
Selections == {NoSelection} \cup {Selected(0, y) : y \in 0..MaxTableRows}
\* The tables rendered: the rows of a grid, with or without a header.
Tables ==
    {Table(Rows(n), header) :
        n \in 0..MaxTableRows, header \in {NoHeader, Header(Row_new)}}
\* The areas rendered into: one column wide and up to MaxHeight lines tall,
\* and one without columns.
Areas == {Rect(1, height) : height \in 0..MaxHeight} \cup {Rect(0, MaxHeight)}

\* state.select(index)
Select ==
    /\ ~panicked
    /\ \E index \in Selections :
         table_state' = TableState_select(table_state, index)
    /\ frame' = NoFrame
    /\ UNCHANGED <<gridvars, panicked, bindvars, sidevars, progvars, columns>>

\* f.render_stateful_widget(table, area, &mut state)
Render ==
    /\ ~panicked
    /\ \E table \in Tables, area \in Areas :
         LET r == Table_render(table, area, table_state)
         IN  /\ table_state' = r.state
             /\ frame' = Frame(table, area, table_state, r.drawn)
             /\ panicked' = (r.drawn.kind = "panic")
    /\ UNCHANGED <<gridvars, bindvars, sidevars, progvars, columns>>

NextViewport ==
    \/ Select
    \/ Render

SpecViewport == InitViewport /\ [][NextViewport]_vars

(* ------------------------------------------------------------------------ *)
(* The columns a Table shows                                                 *)
(* ------------------------------------------------------------------------ *)

\* The column widths a Table is given: up to MaxTableCols Constraint::Length.
ColumnWidths ==
    UNION {[1..n -> 1..MaxWidth] : n \in 0..MaxTableCols}

InitColumns ==
    /\ grid = Grid_from_csv(<< >>)
    /\ change_tracker = ChangeTracker_default
    /\ status_msg = NoStatus
    /\ panicked = FALSE
    /\ last = [op |-> "init", pos |-> XY(0, 0), index |-> 0, contents |-> << >>,
               result |-> "-", branch |-> FALSE,
               pre |-> [grid |-> grid, change_tracker |-> ChangeTracker_default]]
    /\ scenario = Idle(grid)
    /\ bindings = Bindings_empty
    /\ flat = Flat_empty
    /\ bound = {}
    /\ call = Call("empty", "ok", 0, << >>)
    /\ iter = NoIter
    /\ yielded = << >>
    /\ table_state = TableState_default
    /\ frame = NoFrame
    /\ \E widths \in ColumnWidths, max_width \in 0..MaxWidth,
          x \in 0..MaxTableCols :
         columns = Columns(widths, max_width, Selected(x, 0))
    /\ selection = XY(0, 0)
    /\ input_buf = << >>
    /\ view = "Normal"
    /\ handled = NoHandled
    /\ main = NoMain
    /\ editor = NoEditor
    /\ logger = NoLogger
    /\ grid_state = NoGridState

\* The columns of one frame of Table::render: get_columns_widths, and the
\* loop that draws the cells of a row.
RenderColumns ==
    /\ ~columns.laid
    /\ \E columns_widths \in
            Table_get_columns_widths(columns.widths, columns.max_width) :
         columns' = [columns EXCEPT
                        !.laid = TRUE,
                        !.columns_widths = columns_widths,
                        !.drawn = DrawnColumns(columns_widths,
                                               Len(columns.widths))]
    /\ UNCHANGED <<gridvars, panicked, bindvars, sidevars, progvars, table_state, frame>>

NextColumns == RenderColumns

SpecColumns == InitColumns /\ [][NextColumns]_vars

(* ------------------------------------------------------------------------ *)
(* The controller of program.rs: inputs in the Normal view are resolved      *)
(* through the bindings and dispatched to handle_action.                     *)
(* ------------------------------------------------------------------------ *)

\* The largest number of rows and of columns of the sheet the controller is
\* followed on, the largest row and column index the selection is moved to,
\* and the most Changes its undo and redo stacks hold.
MaxSheet == 2
MaxSelection == 1
MaxEdits == 1

\* The Inputs of Default::default for Bindings<Action> that the model follows:
\* one Input for each Action that moves the selection or changes the grid
\* (Jump, whose handler reads the scroll position and the visible cells off
\* the GridState, is left out, as are the file, palette and debug actions).
\* "c" and "r" are bound under the chords only.
Inputs ==
    {"Up", "Down", "Left", "Right", "C-Home", "C-End", "C-z", "C-y",
     "Backspace", "F2", "Enter", "M--", "M-+", "c", "r"}

\* Default::default() for Bindings<Action>
DefaultBindings ==
    LET single ==
            [k \in {"Up", "Down", "Left", "Right", "C-Home", "C-End", "C-z",
                    "C-y", "Backspace", "F2", "Enter"} |->
                ActionNode(
                    CASE k = "Up" -> Move("Up")
                      [] k = "Down" -> Move("Down")
                      [] k = "Left" -> Move("Left")
                      [] k = "Right" -> Move("Right")
                      [] k = "C-Home" -> Act("Home")
                      [] k = "C-End" -> Act("End")
                      [] k = "C-z" -> Act("Undo")
                      [] k = "C-y" -> Act("Redo")
                      [] k = "Backspace" -> Act("Clear")
                      [] k = "F2" -> Act("Edit")
                      [] k = "Enter" -> Act("Replace"))]
        delete ==
            Chord_insert(
                Chord_insert(
                    Bindings_create_chord(single, "Delete", <<"M--">>).bindings,
                    <<"M--">>, "c", Act("DeleteCol")).bindings,
                <<"M--">>, "r", Act("DeleteRow")).bindings
    IN  Chord_insert(
            Chord_insert(
                Bindings_create_chord(delete, "Insert", <<"M-+">>).bindings,
                <<"M-+">>, "c", Act("InsertCol")).bindings,
            <<"M-+">>, "r", Act("InsertRow")).bindings

\* Program::handle_move
Program_handle_move(s, m) ==
    CASE m = "Up" /\ s.y > 0 -> XY(s.x, s.y - 1)
      [] m = "Down" -> XY(s.x, s.y + 1)
      [] m = "Left" /\ s.x > 0 -> XY(s.x - 1, s.y)
      [] m = "Right" -> XY(s.x + 1, s.y)
      [] OTHER -> s

\* What a handler leaves: the fields of the Program, whether it panicked,
\* the grid operation it called and whether that operation's precondition
\* held.
Left(g, t, s, v, status) ==
    [grid |-> g, change_tracker |-> t, selection |-> s, view |-> v,
     status_msg |-> status, panic |-> FALSE, op |-> "-", valid |-> TRUE]

\* grid.<operation>(..).track(&mut self.change_tracker)
Tracking(p, op, r, valid) ==
    IF r.panic
    THEN [p EXCEPT !.panic = TRUE, !.op = op, !.valid = valid]
    ELSE [p EXCEPT !.grid = r.grid,
                   !.change_tracker = ChangeTracker_push(p.change_tracker,
                                                         r.change),
                   !.op = op, !.valid = valid]

\* A handle_input_normal that dispatches on a chord as well.
Lookup_eager(b, path) ==
    LET r == Bindings_get(b, path)
    IN  IF r.kind = "Some" /\ r.node.type = "Chord"
        THEN Found(ActionNode(Act("Home")))
        ELSE r

\* self.bindings.get(&self.input_buf)
Lookup(b, path) == Bindings_get(b, path)

\* Program::handle_action
Program_handle_action(p, action) ==
    LET g == p.grid
        s == p.selection
    IN  CASE action.name = "Move" ->
               [p EXCEPT !.selection = Program_handle_move(s, action.d)]
          [] action.name = "Home" -> [p EXCEPT !.selection = XY(0, 0)]
          [] action.name = "End" ->
               [p EXCEPT !.selection = XY(saturating_sub(g.size.x, 1),
                                          saturating_sub(g.size.y, 1))]
          [] action.name = "Edit" ->
               IF Grid_get_mut(g, s)
               THEN [p EXCEPT !.view = "EditCell", !.status_msg = NoStatus,
                              !.op = "get"]
               ELSE [p EXCEPT !.panic = TRUE, !.op = "get", !.valid = FALSE]
          [] action.name = "Replace" ->
               [p EXCEPT !.view = "EditCell", !.status_msg = NoStatus]
          [] action.name = "Clear" ->
               Tracking(p, "edit", Grid_edit(g, s, ""),
                        Precondition(g, "edit", s, 0, << >>))
          [] action.name = "InsertRow" ->
               Tracking(p, "insert_row", Grid_insert_row(g, s.y, << >>),
                        Precondition(g, "insert_row", s, s.y, << >>))
          [] action.name = "InsertCol" ->
               Tracking(p, "insert_col", Grid_insert_col(g, s.x, << >>),
                        Precondition(g, "insert_col", s, s.x, << >>))
          [] action.name = "DeleteRow" ->
               Tracking(p, "delete_row", Grid_delete_row(g, s.y),
                        Precondition(g, "delete_row", s, s.y, << >>))
          [] action.name = "DeleteCol" ->
               Tracking(p, "delete_col", Grid_delete_col(g, s.x),
                        Precondition(g, "delete_col", s, s.x, << >>))
          [] action.name = "Undo" ->
               LET r == ChangeTracker_undo(p.change_tracker, g)
               IN  [p EXCEPT !.grid = r.grid, !.change_tracker = r.tracker,
                             !.panic = r.panic,
                             !.status_msg = IF r.ret = "None"
                                            THEN Status("UndoLimit", TRUE)
                                            ELSE @]
          [] action.name = "Redo" ->
               LET r == ChangeTracker_redo(p.change_tracker, g)
               IN  [p EXCEPT !.grid = r.grid, !.change_tracker = r.tracker,
                             !.panic = r.panic,
                             !.status_msg = IF r.ret = "None"
                                            THEN Status("RedoLimit", TRUE)
                                            ELSE @]
          [] OTHER -> p

\* The controller is followed while the sheet, the selection and the undo
\* and redo stacks stay within the bounds.
WithinBounds(p) ==
    /\ p.grid.size.x <= MaxSheet /\ p.grid.size.y <= MaxSheet
    /\ Len(p.change_tracker.undos) + Len(p.change_tracker.redos) <= MaxEdits
    /\ p.selection.x <= MaxSelection /\ p.selection.y <= MaxSelection

\* The handler left p.
Leave(p) ==
    /\ WithinBounds(p)
    /\ grid' = p.grid
    /\ change_tracker' = p.change_tracker
    /\ selection' = p.selection
    /\ view' = p.view
    /\ status_msg' = p.status_msg
    /\ panicked' = p.panic

\* The file the program is started on: a grid that is not empty.
ProgramFile == << <<"p">> >>

InitProgram ==
    /\ grid = Grid_from_csv(ProgramFile)
    /\ change_tracker = ChangeTracker_default
    /\ status_msg = NoStatus
    /\ panicked = FALSE
    /\ last = [op |-> "init", pos |-> XY(0, 0), index |-> 0, contents |-> << >>,
               result |-> "-", branch |-> FALSE,
               pre |-> [grid |-> Grid_from_csv(<< >>),
                        change_tracker |-> ChangeTracker_default]]
    /\ scenario = Idle(Grid_from_csv(<< >>))
    /\ bindings = DefaultBindings
    /\ flat = Flat_empty
    /\ bound = {}
    /\ call = Call("empty", "ok", 0, << >>)
    /\ iter = NoIter
    /\ yielded = << >>
    /\ table_state = TableState_default
    /\ frame = NoFrame
    /\ columns = NoColumns
    /\ selection = XY(0, 0)
    /\ input_buf = << >>
    /\ view = "Normal"
    /\ handled = NoHandled
    /\ main = NoMain
    /\ editor = NoEditor
    /\ logger = NoLogger
    /\ grid_state = NoGridState

\* handle_input(i) in the Normal view: handle_input_normal(i)
HandleInputNormal ==
    /\ ~panicked /\ view = "Normal"
    /\ \E i \in Inputs :
         LET path == Append(input_buf, i)
             found == Lookup(bindings, path)
             p == Left(grid, change_tracker, selection, view, status_msg)
         IN  IF found.kind = "None"
             THEN /\ input_buf' = InputBuffer_clear(path)
                  /\ handled' = Handled(path, "None", NoAction, "-", TRUE)
                  /\ Leave(p)
             ELSE IF found.node.type = "Chord"
             THEN /\ input_buf' = path
                  /\ handled' = Handled(path, "Chord", NoAction, "-", TRUE)
                  /\ Leave(p)
             ELSE LET q == Program_handle_action(p, found.node.action)
                  IN  /\ input_buf' = InputBuffer_clear(path)
                      /\ handled' = Handled(path, "Action", found.node.action,
                                            q.op, q.valid)
                      /\ Leave(q)
    /\ UNCHANGED <<last, scenario, bindvars, sidevars, viewvars>>

\* handle_input(i) in the EditCell view when the editor ends with
\* Break(Some(new_contents)): the Submit of the edit dialog.
EditSubmit ==
    /\ ~panicked /\ view = "EditCell"
    /\ \E new_contents \in EditTexts :
         LET p == Left(grid, change_tracker, selection, "Normal", status_msg)
             q == Tracking(p, "edit", Grid_edit(grid, selection, new_contents),
                           Precondition(grid, "edit", selection, 0, << >>))
         IN  /\ handled' = Handled(<< >>, "-", NoAction, q.op, q.valid)
             /\ Leave(q)
    /\ UNCHANGED <<input_buf, last, scenario, bindvars, sidevars, viewvars>>

\* handle_input(i) in the EditCell view when the editor ends with
\* Break(None): the Cancel of the edit dialog.
EditCancel ==
    /\ ~panicked /\ view = "EditCell"
    /\ handled' = NoHandled
    /\ Leave(Left(grid, change_tracker, selection, "Normal", status_msg))
    /\ UNCHANGED <<input_buf, last, scenario, bindvars, sidevars, viewvars>>

NextProgram ==
    \/ HandleInputNormal
    \/ EditSubmit
    \/ EditCancel

SpecProgram == InitProgram /\ [][NextProgram]_vars

(* ------------------------------------------------------------------------ *)
(* The rows a Table shows: claims                                            *)
(* ------------------------------------------------------------------------ *)

\* What the render of the frame was given.
FrameRows == frame.table.rows
FrameBudget == RowsHeight(frame.table, frame.area)
FrameSelected == frame.before.selected
FrameOffset == frame.before.offset
\* The frame called get_row_bounds, which returned [start, end).
Computed == frame.rendered /\ frame.drawn.kind = "rows"

\* The summed height of the rows [start, end).
RECURSIVE SumHeight(_, _, _)
SumHeight(rows, start, end) ==
    IF start >= end THEN 0
    ELSE Row_total_height(rows[start + 1]) + SumHeight(rows, start + 1, end)
Fits(rows, start, end, budget) == SumHeight(rows, start, end) <= budget

\* The largest end for which the rows [start, end) fit the budget.
GreedyEnd(rows, start, budget) ==
    CHOOSE end \in start..Len(rows) :
        /\ Fits(rows, start, end, budget)
        /\ end = Len(rows) \/ ~Fits(rows, start, end + 1, budget)

\* C22: for a non-empty row list, any previous offset, a selection within
\* the rows and a budget of at least one row, get_row_bounds returns a window
\* [start, end) with start <= selection < end <= row count whose rows fit the
\* budget.
C22_WindowHoldsSelectionWithinBudget ==
    (/\ frame.rendered
     /\ Rect_area(frame.area) # 0
     /\ Len(FrameRows) > 0
     /\ FrameSelected.some /\ FrameSelected.y < Len(FrameRows)
     /\ FrameBudget >= 1)
    => /\ frame.drawn.kind = "rows"
       /\ frame.drawn.start <= FrameSelected.y
       /\ FrameSelected.y < frame.drawn.end
       /\ frame.drawn.end <= Len(FrameRows)
       /\ Fits(FrameRows, frame.drawn.start, frame.drawn.end, FrameBudget)

\* A window that began at the last of five rows shows the rows [2, 5) once
\* row 2 is selected.
C22_Witness ==
    /\ Computed
    /\ Len(FrameRows) = 5 /\ FrameBudget = 3
    /\ FrameSelected = Selected(0, 2) /\ FrameOffset = 4
    /\ frame.drawn = Drawn("rows", 2, 5)

\* C23: when the selection is at or beyond the end of the greedy window grown
\* from the previous offset, get_row_bounds returns end = selection + 1 and
\* the smallest start, not below the previous offset, whose rows fit the
\* budget; 5 rows, budget 3, selection 4 and offset 0 give [2, 5).
C23_ScrollDownEvictsFromStart ==
    /\ (/\ Computed
        /\ FrameSelected.some /\ FrameSelected.y < Len(FrameRows)
        /\ FrameBudget >= 1
        /\ FrameSelected.y >=
             GreedyEnd(FrameRows, ClampOffset(FrameRows, FrameOffset),
                       FrameBudget))
       => /\ frame.drawn.end = FrameSelected.y + 1
          /\ frame.drawn.start >= ClampOffset(FrameRows, FrameOffset)
          /\ Fits(FrameRows, frame.drawn.start, frame.drawn.end, FrameBudget)
          /\ \A start \in ClampOffset(FrameRows, FrameOffset)
                          ..(frame.drawn.start - 1) :
                ~Fits(FrameRows, start, frame.drawn.end, FrameBudget)
    /\ (/\ Computed
        /\ Len(FrameRows) = 5 /\ FrameBudget = 3
        /\ FrameSelected = Selected(0, 4) /\ FrameOffset = 0)
       => frame.drawn = Drawn("rows", 2, 5)

C23_Witness ==
    /\ Computed
    /\ Len(FrameRows) = 5 /\ FrameBudget = 3
    /\ FrameSelected = Selected(0, 4) /\ FrameOffset = 0
    /\ frame.drawn = Drawn("rows", 2, 5)

\* C24: when the selection is before the previous offset, get_row_bounds
\* returns start = selection and the largest end, not beyond the greedy end,
\* for which the rows [start, end) fit the budget.
C24_ScrollUpEvictsFromEnd ==
    (/\ Computed
     /\ FrameSelected.some
     /\ FrameSelected.y < ClampOffset(FrameRows, FrameOffset))
    => LET greedy == GreedyEnd(FrameRows, ClampOffset(FrameRows, FrameOffset),
                               FrameBudget)
       IN  /\ frame.drawn.start = FrameSelected.y
           /\ frame.drawn.end <= greedy
           /\ Fits(FrameRows, frame.drawn.start, frame.drawn.end, FrameBudget)
           /\ frame.drawn.end = greedy
              \/ ~Fits(FrameRows, frame.drawn.start, frame.drawn.end + 1,
                       FrameBudget)

\* The window [3, 5) moves up to row 1 and keeps row 3 out.
C24_Witness ==
    /\ Computed
    /\ Len(FrameRows) = 5 /\ FrameBudget = 2
    /\ FrameSelected = Selected(0, 1) /\ FrameOffset = 3
    /\ frame.drawn = Drawn("rows", 1, 3)

\* What get_row_bounds returns for the rows and the budget of the frame.
BoundsFor(selected, offset) ==
    Table_get_row_bounds(FrameRows, selected, offset, FrameBudget)
Offsets == 0..MaxTableRows

C26_DegenerateGeometryDoesNotFail ==
    /\ (frame.rendered /\ (Len(FrameRows) = 0 \/ Rect_area(frame.area) = 0))
       => /\ frame.drawn.kind = "none"
          /\ ~panicked
          /\ table_state = frame.before
    /\ (frame.rendered /\ Len(FrameRows) > 0 /\ Rect_area(frame.area) # 0
        /\ FrameBudget = 0)
       => /\ frame.drawn.kind = "rows"
          /\ frame.drawn.start = frame.drawn.end

\* A render of no rows into an area, with a window further down before it.
C26_Witness ==
    /\ frame.rendered
    /\ Len(FrameRows) = 0 /\ Rect_area(frame.area) # 0
    /\ FrameOffset > 0
    /\ frame.drawn.kind = "none"

\* A header that leaves no line for the rows: the range is empty.
C26_WitnessNoBudget ==
    /\ Computed
    /\ FrameBudget = 0 /\ FrameSelected.some /\ FrameSelected.y > 0
    /\ frame.drawn.start = frame.drawn.end

\* C27 as stated: a previous offset beyond the last row index gives an empty
\* range.
C27_OffsetBeyondRowsIsEmpty ==
    (Computed /\ FrameOffset >= Len(FrameRows))
    => frame.drawn.start = frame.drawn.end

\* C27: a previous offset beyond the last row index is clamped to the last
\* row index: get_row_bounds returns what it returns for that offset, which
\* for a budget of at least one row is a range that is not empty and holds
\* the selected row.
C27_OffsetBeyondRowsIsClamped ==
    (Computed /\ FrameOffset >= Len(FrameRows))
    => LET w == BoundsFor(FrameSelected, Len(FrameRows) - 1)
           y == Min(unwrap_or_default(FrameSelected).y, Len(FrameRows) - 1)
       IN  /\ frame.drawn = Drawn("rows", w.start, w.end)
           /\ FrameBudget >= 1
              => /\ frame.drawn.start <= y /\ y < frame.drawn.end
                 /\ frame.drawn.end <= Len(FrameRows)

\* The window was at row 4 of five; of the two rows left, row 1 is shown.
C27_Witness ==
    /\ Computed
    /\ FrameOffset = 4 /\ Len(FrameRows) = 2 /\ FrameBudget = 1
    /\ FrameSelected = Selected(0, 4)
    /\ frame.drawn = Drawn("rows", 1, 2)

\* C28: get_row_bounds called again with the start it returned as offset and
\* the same rows, selection and budget returns the same range: a frame
\* rendered again does not scroll.
C28_RecomputationIsIdempotent ==
    Computed
    => LET again == BoundsFor(FrameSelected, frame.drawn.start)
       IN  /\ ~again.panic
           /\ again.start = frame.drawn.start
           /\ again.end = frame.drawn.end
           /\ table_state.offset = frame.drawn.start
           /\ Table_render(frame.table, frame.area, table_state).state
                = table_state

\* The frame scrolled down from [0, 3) to [2, 5).
C28_Witness ==
    /\ Computed
    /\ Len(FrameRows) = 5 /\ FrameBudget = 3
    /\ FrameSelected = Selected(0, 4) /\ FrameOffset = 1
    /\ frame.drawn = Drawn("rows", 2, 5)
    /\ table_state.offset = 2

(* ------------------------------------------------------------------------ *)
(* The controller: claims                                                    *)
(* ------------------------------------------------------------------------ *)

\* The last handle_input ran in the Normal view.
Resolved == handled.lookup # "-"

\* C21: in the Normal view each input is appended to the pending path and the
\* whole path is looked up; NotFound clears the path and dispatches nothing,
\* a chord keeps the path and dispatches nothing, an Action clears the path
\* and dispatches that one Action.
C21_ResolutionProtocol ==
    /\ [](Resolved =>
            LET found == Bindings_get(DefaultBindings, handled.path)
            IN  /\ found.kind = "None"
                   => /\ handled.lookup = "None"
                      /\ input_buf = << >>
                      /\ handled.action = NoAction /\ handled.op = "-"
                /\ (found.kind = "Some" /\ found.node.type = "Chord")
                   => /\ handled.lookup = "Chord"
                      /\ input_buf = handled.path
                      /\ handled.action = NoAction /\ handled.op = "-"
                /\ (found.kind = "Some" /\ found.node.type = "Action")
                   => /\ handled.lookup = "Action"
                      /\ input_buf = << >>
                      /\ handled.action = found.node.action)
    /\ [][(view = "Normal")
          => /\ Resolved'
             /\ Len(handled'.path) = Len(input_buf) + 1
             /\ SubSeq(handled'.path, 1, Len(input_buf)) = input_buf
             /\ handled'.path[Len(handled'.path)] \in Inputs
             /\ handled'.lookup \in {"None", "Chord"}
                => UNCHANGED <<grid, change_tracker, selection, view,
                               status_msg, panicked>>
             /\ handled'.lookup = "Action" => handled'.action # NoAction]_vars

\* The chord Alt-minus, r was resolved and deleted the only row.
C21_Witness ==
    /\ handled.path = <<"M--", "r">>
    /\ handled.lookup = "Action" /\ handled.action = Act("DeleteRow")
    /\ input_buf = << >>
    /\ grid.size.y = 0

\* C30: after any sequence of Move, Home, End, Clear, Edit and Replace with
\* their Submit, InsertRow, InsertCol, DeleteRow, DeleteCol, Undo and Redo
\* from the selection (0, 0) on a grid that is not empty, every grid
\* operation the controller calls is given an index that is valid for the
\* grid, and none panics.
C30_ControllerKeepsPreconditions ==
    handled.valid /\ ~panicked

(* ------------------------------------------------------------------------ *)
(* The columns a Table shows: claims                                         *)
(* ------------------------------------------------------------------------ *)

\* The width that the columns [start, end) take at their full widths, with
\* the spacing between them.
FullWidth(widths, start, end) ==
    SumWidths(widths, start, end)
        + column_spacing * saturating_sub(end - start, 1)

\* C29: when the selected column is the last of the visible columns, the
\* range of visible columns is trimmed from the start until the selected
\* column is fully visible: the range starts at the first column from which
\* the columns up to the selected one fit the area at their full widths, the
\* selected column has its full width, and the range ends only where the
\* columns end or the area is used up.
C29_SelectedColumnIsFullyVisible ==
    LET widths == columns.widths
        x == columns.selected.x
    IN  (/\ columns.laid
         /\ x < Len(widths)
         /\ widths[x + 1] <= columns.max_width
         /\ FullWidth(widths, 0, x + 1) > columns.max_width)
        => /\ columns.drawn.start <= x /\ x < columns.drawn.end
           /\ FullWidth(widths, columns.drawn.start, x + 1)
                <= columns.max_width
           /\ \A start \in 0..(columns.drawn.start - 1) :
                 FullWidth(widths, start, x + 1) > columns.max_width
           /\ columns.columns_widths[x + 1] = widths[x + 1]
           /\ columns.drawn.end = Len(widths)
              \/ FullWidth(widths, columns.drawn.start, columns.drawn.end)
                    >= columns.max_width
(* ------------------------------------------------------------------------ *)
(* main.rs: moving the selection                                             *)
(* ------------------------------------------------------------------------ *)

\* The files main.rs loads: no record at all, or records of one width (the
\* csv reader refuses records of unequal lengths, and has no empty record).
MainFiles ==
    {<< >>} \cup {[y \in 1..h |-> [x \in 1..w |-> ""]] :
                    w \in 1..MaxMainSize, h \in 1..MaxMainSize}

Directions == {"Up", "Down", "Left", "Right"}

InitMain ==
    /\ grid = Grid_from_csv(<< >>)
    /\ change_tracker = ChangeTracker_default
    /\ status_msg = NoStatus
    /\ panicked = FALSE
    /\ last = [op |-> "init", pos |-> XY(0, 0), index |-> 0, contents |-> << >>,
               result |-> "-", branch |-> FALSE,
               pre |-> [grid |-> grid, change_tracker |-> ChangeTracker_default]]
    /\ scenario = Idle(grid)
    /\ bindings = Bindings_empty
    /\ flat = Flat_empty
    /\ bound = {}
    /\ call = Call("empty", "ok", 0, << >>)
    /\ iter = NoIter
    /\ yielded = << >>
    /\ table_state = TableState_default
    /\ frame = NoFrame
    /\ columns = NoColumns
    /\ selection = XY(0, 0)
    /\ input_buf = << >>
    /\ view = "Normal"
    /\ handled = NoHandled
    /\ \E records \in MainFiles : main = Main_from_path(records)
    /\ editor = NoEditor
    /\ logger = NoLogger
    /\ grid_state = NoGridState

\* Action::Move(d) => self.handle_move(d); a failed assertion is a panic.
MainMove ==
    /\ ~panicked
    /\ \E d \in Directions :
         /\ main' = Main_handle_move(main, d)
         /\ panicked' = (~main'.entry \/ main'.exit = "failed")
    /\ UNCHANGED <<gridvars, bindvars, viewvars, progvars, editor, logger, grid_state>>

NextMain == MainMove

SpecMain == InitMain /\ [][NextMain]_vars

\* C31: in the Program of main.rs the assertion of assert_selection_valid
\* holds at entry and at exit of every handle_move, for every file loaded
\* and every sequence of moves from selection (0, 0).
C31_SelectionAssertionHolds ==
    main.entry /\ main.exit # "failed"

\* The assertion holds in every move on a file that has a record.
C31_HoldsOnNonEmptyGrid ==
    main.grid.size.y > 0 => main.entry /\ main.exit # "failed"

(* ------------------------------------------------------------------------ *)
(* The controller: further claims                                            *)
(* ------------------------------------------------------------------------ *)

\* The path resolves to a chord of the bindings.
ResolvesToChord(path) ==
    LET found == Bindings_get(DefaultBindings, path)
    IN  found.kind = "Some" /\ found.node.type = "Chord"

\* C32: after every handled input the pending path is empty or resolves to
\* a Chord node; it is empty whenever the view is not Normal; and the path
\* of every lookup has only chords before its last Input, so that no lookup
\* has Inputs trailing an Action leaf.
C32_PendingPathIsEmptyOrChord ==
    /\ input_buf = << >> \/ ResolvesToChord(input_buf)
    /\ view # "Normal" => input_buf = << >>
    /\ Resolved =>
         \A n \in 1..(Len(handled.path) - 1) :
             ResolvesToChord(SubSeq(handled.path, 1, n))

\* A chord is pending.
C32_Witness ==
    /\ input_buf = <<"M-+">>
    /\ handled.path = <<"M-+">> /\ handled.lookup = "Chord"
    /\ view = "Normal"

(* ------------------------------------------------------------------------ *)
(* program.rs: loading and reloading the file                                *)
(* ------------------------------------------------------------------------ *)

\* The most Changes the undo stack holds while reloads are followed.
MaxReloads == 2

\* What opening the file and Grid::from_csv give at the time of a read: an
\* io::Error, or the records of the file.
Unreadable == [ok |-> FALSE, records |-> << >>]
Readable(records) == [ok |-> TRUE, records |-> records]
FileStates == {Unreadable} \cup {Readable(records) : records \in CsvFiles}

\* A read that replaces the grid without tracking the Change.
Program_read_untracked(g, t, file) ==
    IF ~file.ok
    THEN [grid |-> g, change_tracker |-> t, result |-> "Err"]
    ELSE [grid |-> Grid_replace(g, Grid_from_csv(file.records)).grid,
          change_tracker |-> t, result |-> "Ok"]

\* Program::read
Program_read(g, t, file) ==
    IF ~file.ok
    THEN [grid |-> g, change_tracker |-> t, result |-> "Err"]
    ELSE LET r == Grid_replace(g, Grid_from_csv(file.records))
         IN  [grid |-> r.grid,
              change_tracker |-> ChangeTracker_push(t, r.change),
              result |-> "Ok"]

\* A from_path that keeps the Change of the first read.
Program_from_path_tracked(file) ==
    Program_read(Grid_from_csv(<< >>), ChangeTracker_default, file)

\* Program::from_path, for a file that is read without error: the read of a
\* Program::default(), then the reset of the change tracker.
Program_from_path(file) ==
    LET s == Program_read(Grid_from_csv(<< >>), ChangeTracker_default, file)
    IN  [s EXCEPT !.change_tracker = ChangeTracker_default]

InitFile ==
    /\ \E records \in CsvFiles :
         LET s == Program_from_path(Readable(records))
         IN  /\ grid = s.grid
             /\ change_tracker = s.change_tracker
             /\ last = Op("from_path", XY(0, 0), 0, records, s.result, FALSE,
                          [grid |-> Grid_from_csv(<< >>),
                           change_tracker |-> ChangeTracker_default])
    /\ status_msg = NoStatus
    /\ panicked = FALSE
    /\ scenario = Idle(grid)
    /\ bindings = Bindings_empty
    /\ flat = Flat_empty
    /\ bound = {}
    /\ call = Call("empty", "ok", 0, << >>)
    /\ iter = NoIter
    /\ yielded = << >>
    /\ table_state = TableState_default
    /\ frame = NoFrame
    /\ columns = NoColumns
    /\ selection = XY(0, 0)
    /\ input_buf = << >>
    /\ view = "Normal"
    /\ handled = NoHandled
    /\ main = NoMain
    /\ editor = NoEditor
    /\ logger = NoLogger
    /\ grid_state = NoGridState

\* Action::Read: self.read(), then set_status(Status::Read(filename, result))
Read ==
    /\ ~panicked
    /\ Len(change_tracker.undos) < MaxReloads
    /\ \E file \in FileStates :
         LET r == Program_read(grid, change_tracker, file)
         IN  /\ grid' = r.grid
             /\ change_tracker' = r.change_tracker
             /\ status_msg' = Status("Read", r.result = "Ok")
             /\ last' = Op("read", XY(0, 0), 0, file.records, r.result,
                           FALSE, Pre)
    /\ UNCHANGED <<scenario, panicked, bindvars, sidevars, viewvars, progvars>>

NextFile ==
    \/ Read
    \/ Undo
    \/ Redo

SpecFile == InitFile /\ [][NextFile]_vars

\* C33: the first load of the file is not undoable. Right after from_path
\* both history stacks are empty and no status is set, and an Undo taken
\* then reports the undo limit and leaves the loaded grid and the stacks as
\* they are.
C33_FirstLoadIsNotUndoable ==
    /\ [](last.op = "from_path"
            => /\ change_tracker = ChangeTracker_default
               /\ grid = Grid_from_csv(last.contents)
               /\ status_msg = NoStatus)
    /\ [][(last.op = "from_path" /\ last'.op = "undo")
            => /\ grid' = grid
               /\ change_tracker' = change_tracker
               /\ status_msg' = Status("UndoLimit", TRUE)
               /\ last'.result = "None"]_vars

\* The first action after the load of a file with records was an Undo.
C33_Witness ==
    /\ last.op = "undo" /\ last.result = "None"
    /\ last.pre.change_tracker = ChangeTracker_default
    /\ change_tracker = ChangeTracker_default
    /\ status_msg = Status("UndoLimit", TRUE)
    /\ grid = Grid_from_csv(<< <<"p", "q">>, <<"r", "s">> >>)

\* C34: a reload is a tracked edit. A read that succeeds replaces the grid
\* by the file's, pushes exactly one Change (the grid replaced) and sets the
\* status of a read without error, and an Undo taken next restores the grid
\* as it was before the reload; a read that fails leaves the grid and both
\* history stacks as they were and sets an error status.
C34_ReloadIsTracked ==
    /\ []((last.op = "read" /\ last.result = "Ok")
            => /\ grid = Grid_from_csv(last.contents)
               /\ change_tracker.undos
                    = Append(last.pre.change_tracker.undos,
                             ReplaceGrid(last.pre.grid))
               /\ change_tracker.redos = << >>
               /\ status_msg = Status("Read", TRUE)
               /\ ~Status_is_err(status_msg))
    /\ []((last.op = "read" /\ last.result = "Err")
            => /\ grid = last.pre.grid
               /\ change_tracker = last.pre.change_tracker
               /\ Status_is_err(status_msg))
    /\ [][(last.op = "read" /\ last.result = "Ok" /\ last'.op = "undo")
            => /\ grid' = last.pre.grid
               /\ change_tracker'.undos = last.pre.change_tracker.undos
               /\ last'.result = "Some"]_vars

\* A reload that changed the grid was undone.
C34_Witness ==
    /\ last.op = "undo" /\ last.result = "Some"
    /\ last.pre.grid = Grid_from_csv(<< <<"p">>, <<"r">> >>)
    /\ grid = Grid_from_csv(<< <<"p", "q">> >>)
    /\ Len(change_tracker.redos) = 1

\* A reload failed after one that succeeded.
C34_WitnessFailure ==
    /\ last.op = "read" /\ last.result = "Err"
    /\ Len(change_tracker.undos) = 1
    /\ Status_is_err(status_msg)

(* ------------------------------------------------------------------------ *)
(* program.rs: the cell-edit dialog in the program                           *)
(* ------------------------------------------------------------------------ *)

\* The files the dialog is followed on: one cell, empty or of one char.
EditFiles == {<< <<text>> >> : text \in {<< >>} \cup Chars}

\* The Inputs of the Normal view that lead to the dialog: the moves along
\* the rows, Edit and Replace.
EditNormalInputs == {"Up", "Down", "F2", "Enter"}

\* The Inputs of the dialog: the one-byte char typed, every key bound by
\* EditAction::bindings(), and a key that is not bound.
EditInputs ==
    {KeyChar(Char_a)}
        \cup {Key(k) : k \in DOMAIN EditAction_bindings \cup {"F2"}}

InitEdit ==
    /\ \E records \in EditFiles :
         LET s == Program_from_path(Readable(records))
         IN  grid = s.grid /\ change_tracker = s.change_tracker
    /\ status_msg = NoStatus
    /\ panicked = FALSE
    /\ last = [op |-> "init", pos |-> XY(0, 0), index |-> 0, contents |-> << >>,
               result |-> "-", branch |-> FALSE,
               pre |-> [grid |-> Grid_from_csv(<< >>),
                        change_tracker |-> ChangeTracker_default]]
    /\ scenario = Idle(Grid_from_csv(<< >>))
    /\ bindings = DefaultBindings
    /\ flat = Flat_empty
    /\ bound = {}
    /\ call = Call("empty", "ok", 0, << >>)
    /\ iter = NoIter
    /\ yielded = << >>
    /\ table_state = TableState_default
    /\ frame = NoFrame
    /\ columns = NoColumns
    /\ selection = XY(0, 0)
    /\ input_buf = << >>
    /\ view = "Normal"
    /\ handled = NoHandled
    /\ main = NoMain
    /\ editor = NoEditor
    /\ logger = NoLogger
    /\ grid_state = NoGridState

\* handle_input(i) in the Normal view, for an Input bound to Move, Edit or
\* Replace: Edit opens the dialog on the text of the selected cell, Replace
\* on the empty text.
EditHandleInputNormal ==
    /\ ~panicked /\ view = "Normal"
    /\ \E i \in EditNormalInputs :
         LET action == Lookup(bindings, <<i>>).node.action
             p == Left(grid, change_tracker, selection, view, status_msg)
             q == Program_handle_action(p, action)
         IN  /\ Leave(q)
             /\ handled' = Handled(<<i>>, "Action", action, q.op, q.valid)
             /\ editor' =
                  IF q.view # "EditCell" THEN NoEditor
                  ELSE LET s == EditState_from_str(
                                  IF action.name = "Edit"
                                  THEN grid.cells[selection.y + 1]
                                                 [selection.x + 1]
                                  ELSE << >>)
                       IN  Editor(s, Key("-"), EditAct("-"), s)
    /\ UNCHANGED <<input_buf, last, scenario, bindvars, viewvars, main, logger, grid_state>>

\* handle_input(i) in the EditCell view: the dialog handles the Input; when
\* it breaks with a text the selected cell is edited, and when it breaks the
\* view is Normal again.
EditHandleInput ==
    /\ ~panicked /\ view = "EditCell"
    /\ \E input \in EditInputs :
         LET r == EditState_handle_input(editor.state, input)
             p == Left(grid, change_tracker, selection, view, status_msg)
             q == IF r.panic THEN [p EXCEPT !.panic = TRUE]
                  ELSE IF r.flow = "Continue" THEN p
                  ELSE IF r.flow = "BreakNone" THEN [p EXCEPT !.view = "Normal"]
                  ELSE LET e == Tracking(p, "edit",
                                    Grid_edit(grid, selection, r.contents),
                                    Precondition(grid, "edit", selection, 0,
                                                 << >>))
                       IN  IF e.panic THEN e ELSE [e EXCEPT !.view = "Normal"]
         IN  /\ Len(r.state.buffer) <= MaxText
             /\ Leave(q)
             /\ editor' = Editor(r.state, input, EditActionOf(input),
                                 editor.state)
    /\ UNCHANGED <<input_buf, handled, last, scenario, bindvars, viewvars,
                   main, logger, grid_state>>

NextEdit ==
    \/ EditHandleInputNormal
    \/ EditHandleInput

SpecEdit == InitEdit /\ [][NextEdit]_vars

\* The text of the selected cell.
SelectedCell == grid.cells[selection.y + 1][selection.x + 1]

\* What a step of the dialog has to leave, by the action of its Input.
DialogEffect ==
    LET name == editor'.action.name
    IN  /\ ~panicked'
        /\ name = "Cancel"
             => view' = "Normal" /\ UNCHANGED <<grid, change_tracker>>
        /\ name = "Enter"
             => /\ view' = "Normal"
                /\ Grid_is_in(grid, selection)
                /\ grid' = [grid EXCEPT !.cells[selection.y + 1]
                                               [selection.x + 1]
                                          = editor.state.buffer]
                /\ change_tracker'.undos
                     = Append(change_tracker.undos,
                              Replace(selection, SelectedCell))
                /\ change_tracker'.redos = << >>
        /\ name \notin {"Cancel", "Enter"}
             => view' = "EditCell" /\ UNCHANGED <<grid, change_tracker>>

\* C35: in the EditCell view, cancelling the editor returns the view to
\* Normal and leaves the grid and both history stacks unchanged; submitting
\* returns to Normal, sets the selected cell to the edited text and pushes
\* exactly one Change; any other input keeps the EditCell view and changes
\* neither grid nor history.
C35_DialogEffects ==
    [][view = "EditCell" => DialogEffect]_vars

\* The text has chars of one byte only.
OneByteChars(buffer) == \A i \in DOMAIN buffer : buffer[i] = "61"

\* The effects of C35 hold while the selection is a cell of the grid and the
\* text in the editor has chars of one byte only.
C35_EffectsInsideTheGrid ==
    [][(/\ view = "EditCell"
        /\ Grid_is_in(grid, selection)
        /\ OneByteChars(editor.state.buffer))
            => DialogEffect]_vars

\* C36: from from_str(s), after any sequence of inserts of a one-byte char,
\* Backspace, Delete, Move and Jump, each of which runs to its end, the
\* cursor is at most the length of the buffer; Backspace at cursor 0 and
\* Delete at the end of the buffer change nothing.
C36_CursorWithinBuffer ==
    /\ (view = "EditCell" /\ editor.action.name # "Enter")
         => editor.state.cursor <= Len(editor.state.buffer)
    /\ ~(/\ panicked
         /\ editor.action.name
              \in {"Char", "Backspace", "Delete", "Move", "Jump"})
    /\ (editor.action.name = "Backspace" /\ editor.before.cursor = 0)
         => editor.state = editor.before
    /\ (/\ editor.action.name = "Delete"
        /\ editor.before.cursor = Len(editor.before.buffer))
         => editor.state = editor.before

\* The cursor is within the buffer in every state, and Backspace at cursor 0
\* and Delete at the end change nothing, whenever they return.
C36_CursorWithinBufferUnlessPanic ==
    /\ (view = "EditCell" /\ editor.action.name # "Enter")
         => editor.state.cursor <= Len(editor.state.buffer)
    /\ (editor.action.name = "Backspace" /\ editor.before.cursor = 0)
         => editor.state = editor.before
    /\ (/\ editor.action.name = "Delete"
        /\ editor.before.cursor = Len(editor.before.buffer))
         => editor.state = editor.before

(* ------------------------------------------------------------------------ *)
(* logger.rs: threads that log and read the log                              *)
(* ------------------------------------------------------------------------ *)

InitLogger ==
    /\ grid = Grid_from_csv(<< >>)
    /\ change_tracker = ChangeTracker_default
    /\ status_msg = NoStatus
    /\ panicked = FALSE
    /\ last = [op |-> "init", pos |-> XY(0, 0), index |-> 0, contents |-> << >>,
               result |-> "-", branch |-> FALSE,
               pre |-> [grid |-> grid, change_tracker |-> ChangeTracker_default]]
    /\ scenario = Idle(grid)
    /\ bindings = Bindings_empty
    /\ flat = Flat_empty
    /\ bound = {}
    /\ call = Call("empty", "ok", 0, << >>)
    /\ iter = NoIter
    /\ yielded = << >>
    /\ table_state = TableState_default
    /\ frame = NoFrame
    /\ columns = NoColumns
    /\ selection = XY(0, 0)
    /\ input_buf = << >>
    /\ view = "Normal"
    /\ handled = NoHandled
    /\ main = NoMain
    /\ editor = NoEditor
    /\ logger = NoLogger
    /\ grid_state = NoGridState

LoggerOnly ==
    UNCHANGED <<gridvars, panicked, bindvars, viewvars, progvars, main, editor, grid_state>>

\* The number of log calls that have not pushed their record yet.
Logging == Cardinality({t \in Threads : logger.pc[t] = "log"})

\* A thread calls log(record) for a record that the filter lets through.
CallLog(t) ==
    /\ ~panicked /\ logger.pc[t] = "idle"
    /\ logger.logged + Logging < MaxLogged
    /\ logger' = [logger EXCEPT !.pc[t] = "log"]
    /\ LoggerOnly

\* log: self.buffer.lock() is granted, the record is pushed, the guard is
\* dropped and log returns.
Log(t) ==
    /\ ~panicked /\ logger.pc[t] = "log"
    /\ logger.write_lock = "-"
    /\ logger' = [logger EXCEPT
                     !.buffer = BufferLogger_log(@, logger.logged + 1),
                     !.logged = @ + 1,
                     !.pc[t] = "idle",
                     !.last = [op |-> "log", drained |-> 0, held |-> 0]]
    /\ LoggerOnly

\* A thread calls buffer(): swap() is entered.
CallBuffer(t) ==
    /\ ~panicked /\ logger.pc[t] = "idle"
    /\ logger' = [logger EXCEPT !.pc[t] = "swap_write"]
    /\ LoggerOnly

\* swap: let mut write = self.buffer.lock().unwrap() is granted.
SwapLockWrite(t) ==
    /\ ~panicked /\ logger.pc[t] = "swap_write"
    /\ logger.write_lock = "-"
    /\ logger' = [logger EXCEPT !.write_lock = t, !.pc[t] = "swap_read"]
    /\ LoggerOnly

\* swap: let mut read = self.read_buffer.lock().unwrap() is granted, the
\* records are moved, both guards are dropped and buffer() returns the read
\* buffer, which the caller goes on to lock.
SwapLockRead(t) ==
    /\ ~panicked /\ logger.pc[t] = "swap_read"
    /\ logger.read_lock = "-"
    /\ LET r == BufferLogger_swap(logger.buffer, logger.read_buffer)
       IN  /\ logger' = [logger EXCEPT
                            !.buffer = r.write,
                            !.read_buffer = r.read,
                            !.write_lock = "-",
                            !.pc[t] = IF r.panic THEN @ ELSE "lock",
                            !.last = [op |-> "swap", drained |-> r.drained,
                                      held |-> Len(logger.read_buffer)]]
           /\ panicked' = r.panic
    /\ UNCHANGED <<gridvars, bindvars, viewvars, progvars, main, editor,
                   grid_state>>

\* swap locks the read buffer on the thread that holds its guard: lock()
\* may panic; when it does not, the thread waits for itself.
SwapRelock(t) ==
    /\ ~panicked /\ logger.pc[t] = "swap_read"
    /\ logger.read_lock = t
    /\ panicked' = TRUE
    /\ UNCHANGED <<logger, gridvars, bindvars, viewvars, progvars, main, editor,
                   grid_state>>

\* The caller of buffer() locks the buffer it was given: b.lock().unwrap()
\* is granted.
Lock(t) ==
    /\ ~panicked /\ logger.pc[t] = "lock"
    /\ logger.read_lock = "-"
    /\ logger' = [logger EXCEPT !.read_lock = t, !.guard[t] = TRUE,
                                !.pc[t] = "idle"]
    /\ LoggerOnly

\* The holder of the guard drops it.
Unlock(t) ==
    /\ ~panicked /\ logger.pc[t] = "idle" /\ logger.guard[t]
    /\ logger' = [logger EXCEPT !.read_lock = "-", !.guard[t] = FALSE]
    /\ LoggerOnly

NextLogger ==
    \E t \in Threads :
        \/ CallLog(t)
        \/ Log(t)
        \/ CallBuffer(t)
        \/ SwapLockWrite(t)
        \/ SwapLockRead(t)
        \/ SwapRelock(t)
        \/ Lock(t)
        \/ Unlock(t)

SpecLogger == InitLogger /\ [][NextLogger]_vars

\* Every lock that can be granted again and again is granted, and every
\* guard is dropped: a call that never returns waits for a lock that is
\* never free again.
FairLogger ==
    \A t \in Threads :
        /\ SF_vars(Log(t))
        /\ SF_vars(SwapLockWrite(t))
        /\ SF_vars(SwapLockRead(t))
        /\ SF_vars(Lock(t))
        /\ SF_vars(Unlock(t))

SpecLoggerFair == InitLogger /\ [][NextLogger]_vars /\ FairLogger

\* C37: logging while the buffer returned by buffer() is locked does not
\* deadlock: in every interleaving of threads that log, call buffer() and
\* hold the guard of the read buffer, every log() call and every buffer()
\* call returns.
C37_EveryCallReturns ==
    \A t \in Threads :
        /\ (logger.pc[t] = "log") ~> (logger.pc[t] # "log")
        /\ (logger.pc[t] \in {"swap_write", "swap_read"})
              ~> (logger.pc[t] \notin {"swap_write", "swap_read"})

\* One thread holds the guard of the read buffer and waits in log() for the
\* write buffer; the other holds the write buffer in swap() and waits for
\* the read buffer.
Deadlocked ==
    \E t, u \in Threads :
        /\ logger.guard[t] /\ logger.pc[t] = "log"
        /\ logger.write_lock = u /\ logger.pc[u] = "swap_read"

\* No state has two threads waiting for each other.
C37_NoDeadlock == ~Deadlocked

\* C38: the log buffers are bounded and drop the oldest records. Neither
\* buffer holds more records than its capacity; swap never drains more
\* records than the read buffer holds; the records of the read buffer and
\* then the write buffer are in the order in which they were logged; and
\* after a swap the read buffer holds the most recent records, as many as
\* were logged up to the capacity, from oldest to newest.
C38_BuffersAreBoundedDropOldest ==
    /\ Len(logger.buffer) <= buf_size
    /\ Len(logger.read_buffer) <= buf_size
    /\ logger.last.op = "swap" => logger.last.drained <= logger.last.held
    /\ LET all == logger.read_buffer \o logger.buffer
       IN  \A i \in 1..(Len(all) - 1) : all[i] < all[i + 1]
    /\ logger.last.op = "swap"
         => LET k == Min(buf_size, logger.logged)
            IN  /\ logger.buffer = << >>
                /\ logger.read_buffer
                     = [i \in 1..k |-> logger.logged - k + i]

\* A swap made room in a full read buffer for a full write buffer.
C38_Witness ==
    /\ logger.last.op = "swap" /\ logger.last.drained = buf_size
    /\ logger.last.held = buf_size
    /\ Len(logger.read_buffer) = buf_size
    /\ logger.logged = MaxLogged


(* ------------------------------------------------------------------------ *)
(* Minimal scroll.                                                           *)
(* ------------------------------------------------------------------------ *)

\* The selection of the frame lies inside the rows that fit the budget from
\* the previous offset on.
SelectionInGreedyWindow ==
    /\ FrameSelected.some
    /\ FrameOffset < Len(FrameRows)
    /\ FrameOffset <= FrameSelected.y
    /\ FrameSelected.y < GreedyEnd(FrameRows, FrameOffset, FrameBudget)

\* C39: when the selection lies inside the greedy window grown from the
\* previous offset, get_row_bounds returns start equal to that offset and the
\* render leaves the offset of the state as it was; and for the window a
\* frame has drawn, selecting any of its rows and computing the bounds again
\* from its start returns the same start.
C39_MinimalScroll ==
    /\ (Computed /\ SelectionInGreedyWindow)
       => /\ frame.drawn.start = FrameOffset
          /\ table_state.offset = FrameOffset
    /\ Computed
       => \A y \in frame.drawn.start..(frame.drawn.end - 1) :
             Table_get_row_bounds(FrameRows, Selected(0, y),
                                  frame.drawn.start, FrameBudget).start
               = frame.drawn.start

\* Five rows, three of them visible from row 1 on, and the last visible row
\* selected: the window stays [1, 4).
C39_Witness ==
    /\ Computed
    /\ Len(FrameRows) = 5 /\ FrameBudget = 3
    /\ FrameSelected = Selected(0, 3) /\ FrameOffset = 1
    /\ frame.drawn = Drawn("rows", 1, 4)


(* ------------------------------------------------------------------------ *)
(* program.rs: the sheet moved, jumped and drawn, frame after frame.         *)
(* ------------------------------------------------------------------------ *)

\* The most rows of a grid that is scrolled, and the furthest row selected
\* or scrolled to.
MaxScroll == 3
\* The files whose grids are scrolled: one column of up to MaxScroll rows.
ScrollFiles == {[i \in 1..n |-> <<"">>] : n \in 0..MaxScroll}

\* self.grid_state.scroll(): the offset of the rows is that of the table.
GridState_scroll == XY(grid_state.scroll_x, table_state.offset)

\* The selection and the scroll stay within the bounds followed.
InScroll(p) == p.x <= MaxSelection /\ p.y <= MaxScroll

InitScroll ==
    /\ \E records \in ScrollFiles : grid = Grid_from_csv(records)
    /\ change_tracker = ChangeTracker_default
    /\ status_msg = NoStatus
    /\ panicked = FALSE
    /\ last = [op |-> "init", pos |-> XY(0, 0), index |-> 0, contents |-> << >>,
               result |-> "-", branch |-> FALSE,
               pre |-> [grid |-> Grid_from_csv(<< >>),
                        change_tracker |-> ChangeTracker_default]]
    /\ scenario = Idle(Grid_from_csv(<< >>))
    /\ bindings = Bindings_empty
    /\ flat = Flat_empty
    /\ bound = {}
    /\ call = Call("empty", "ok", 0, << >>)
    /\ iter = NoIter
    /\ yielded = << >>
    /\ table_state = TableState_default
    /\ frame = NoFrame
    /\ columns = NoColumns
    /\ selection = XY(0, 0)
    /\ input_buf = << >>
    /\ view = "Normal"
    /\ handled = NoHandled
    /\ main = NoMain
    /\ editor = NoEditor
    /\ logger = NoLogger
    /\ grid_state = NoGridState

\* Move(d) => self.handle_move(d)
HandleMove ==
    /\ ~panicked
    /\ \E d \in Directions :
         LET s == Program_handle_move(selection, d)
         IN  /\ InScroll(s)
             /\ selection' = s
             /\ grid_state' = GridState(grid_state.scroll_x, Move(d), XY(0, 0),
                                        selection, GridState_scroll)
    /\ frame' = NoFrame
    /\ UNCHANGED <<gridvars, panicked, bindvars, main, editor, logger,
                   table_state, columns, input_buf, view, handled>>

\* Jump(d) => self.handle_jump(d)
HandleJump ==
    /\ ~panicked
    /\ \E d \in Directions, cells \in VisibleCells :
         LET r == Program_handle_jump(selection, GridState_scroll, cells, d)
         IN  /\ InScroll(r.selection) /\ InScroll(r.scroll)
             /\ selection' = r.selection
             /\ table_state' = TableState(r.scroll.y, table_state.selected)
             /\ grid_state' = GridState(r.scroll.x, Jump(d), cells,
                                        selection, GridState_scroll)
    /\ frame' = NoFrame
    /\ UNCHANGED <<gridvars, panicked, bindvars, main, editor, logger,
                   columns, input_buf, view, handled>>

\* self.grid_state.select(Some(self.selection));
\* f.render_stateful_widget(GridView::new(&self.grid), size, &mut self.grid_state)
Draw ==
    /\ ~panicked
    /\ \E area \in Areas :
         LET table == Table(Rows(grid.size.y), NoHeader)
             state == TableState_select(table_state,
                                        Selected(selection.x, selection.y))
             r == Table_render(table, area, state)
         IN  /\ table_state' = r.state
             /\ frame' = Frame(table, area, state, r.drawn)
             /\ panicked' = (r.drawn.kind = "panic")
    /\ grid_state' = GridState(grid_state.scroll_x, NoAction, XY(0, 0),
                               XY(0, 0), XY(0, 0))
    /\ UNCHANGED <<gridvars, bindvars, main, editor, logger, progvars, columns>>

NextScroll ==
    \/ HandleMove
    \/ HandleJump
    \/ Draw

SpecScroll == InitScroll /\ [][NextScroll]_vars

\* This step is the move or the jump d.
Moved(d) == grid_state' # grid_state /\ grid_state'.action = Move(d)
JumpedTo(d) == grid_state' # grid_state /\ grid_state'.action = Jump(d)
\* The larger of a - b and zero.
FloorAtZero(a, b) == IF a >= b THEN a - b ELSE 0

\* get_row_bounds, called for a non-empty row list, returned a window within
\* the rows.
WindowWithinRows ==
    (frame.rendered /\ Rect_area(frame.area) # 0 /\ Len(FrameRows) > 0)
    => /\ frame.drawn.kind = "rows"
       /\ 0 <= frame.drawn.start
       /\ frame.drawn.start <= frame.drawn.end
       /\ frame.drawn.end <= Len(FrameRows)

\* What a move or a jump towards 0 does to the selection and the scroll.
TowardsZero ==
    /\ (Moved("Up") /\ selection.y = 0) => selection' = selection
    /\ (Moved("Left") /\ selection.x = 0) => selection' = selection
    /\ (Moved("Up") \/ Moved("Left"))
       => /\ selection'.x >= 0 /\ selection'.y >= 0
          /\ table_state' = table_state
          /\ grid_state'.scroll_x = grid_state.scroll_x
    /\ JumpedTo("Up")
       => /\ selection' = XY(selection.x,
                             FloorAtZero(selection.y, grid_state'.cells.y))
          /\ table_state'.offset = FloorAtZero(table_state.offset,
                                               grid_state'.cells.y)
          /\ grid_state'.scroll_x = grid_state.scroll_x
    /\ JumpedTo("Left")
       => /\ selection' = XY(FloorAtZero(selection.x, grid_state'.cells.x),
                             selection.y)
          /\ grid_state'.scroll_x = FloorAtZero(grid_state.scroll_x,
                                                grid_state'.cells.x)
          /\ table_state'.offset = table_state.offset

\* C40: for a non-empty row list, whatever the offset, the selection and the
\* budget, get_row_bounds does not take a usize below zero or an index out
\* of the rows, and returns start <= end <= row count; Move Up at row 0 and
\* Move Left at column 0 leave the selection as it was; and Jump Up and Jump
\* Left take the page off the selection and off the scroll, stopping at 0.
C40_NoUnderflowInViewArithmetic ==
    /\ [](~panicked /\ WindowWithinRows)
    /\ [][TowardsZero]_vars

\* With row 1 selected and the rows scrolled to row 2, a Jump Up by a page of
\* MaxHeight rows stops the selection and the scroll at row 0.
C40_Witness ==
    /\ grid_state.action = Jump("Up")
    /\ grid_state.cells.y = MaxHeight
    /\ grid_state.selection.y = 1 /\ grid_state.scroll.y = 2
    /\ selection.y = 0 /\ table_state.offset = 0

\* A frame of a non-empty grid drawn after the selection left the rows: the
\* window ends at the last row.
C40_WitnessWindow ==
    /\ Computed
    /\ Len(FrameRows) = 2 /\ FrameBudget = 1
    /\ FrameSelected = Selected(0, MaxScroll) /\ FrameOffset = MaxScroll
    /\ frame.drawn = Drawn("rows", 1, 2)

====
